---- MODULE Spec2Model ----
(***************************************************************************)
(* Master of Muppets firmware core: the MIDI ingress task, the dispatcher, *)
(* the refresh watchdog, one DAC worker per DAC and the asynchronous I2C   *)
(* transfer engine with its driver and manager layers.                     *)
(*                                                                         *)
(* Granularity.  TeensyThreads switches threads on a time slice, so the    *)
(* threads interleave.  A step of the model is one critical section under  *)
(* a mutex, one element of a memcpy, one bus transaction boundary, or one  *)
(* call of the transfer engine's API.  Statistics that the code writes and *)
(* never reads (durations, counters of operations) are left out.           *)
(***************************************************************************)
EXTENDS Integers, Sequences, FiniteSets, TLC

\* dr_teeth::k_dac_count
k_dac_count == 2
\* channels per DAC in the model (dr_teeth::k_channels_per_dac is 8)
ChannelsPerDac == 2
\* largest value update_sequence is incremented to when sequence numbers are not renumbered
MaxSeq == 3
\* largest number of DACs that have the asynchronous driver
MaxAsyncDacs == 1
\* largest number of transfers a client of the engine's API has accepted
MaxTransfers == 3
\* the messages of a burst, and the cap of the count of transfers during a burst
BurstLen == 3
MaxBurstTransfers == 3
MaxErrorCount == 4
\* dma_error_handler: the largest retry_count a caller passes, the cap of
\* consecutive_errors, of the history of successes and of peripheral_reset_count
MaxRetryCount == 4
MaxConsecutiveErrors == 12
MaxStreak == 12
MaxResets == 1
\* the failures handled in the specifications of the error policy, of the bus
\* errors, of the NAK scenario and of the peripheral reset
PolicyCalls == 2
BusErrorCalls == 7
NakFailures == 4
ResetCalls == 12
MaxLogged == 70
\* the calls of dma_i2c_hal::init that succeed, each adding a thread
MaxThreads == 2
\* the pitch-bend values and the MIDI channels usbMIDI hands to set_channel_value
MaxPitch == 8191
MinPitch == -(MaxPitch + 1)
BendChannels == { 0, 1, 8, 9, 16, 17 }
\* dr_teeth MIDI constants
k_midi_pitch_zero_offset == 8192
k_midi_pitch_14_bit_max == 16383
k_midi_to_framework_scale == 4
max_retry_attempts == 3
MAX_ERROR_LOG_ENTRIES == 32
retry_delay_base_ms == 1
retry_delay_max_ms == 10
k_channels_per_dac == 8
k_channels == 8
\* rob_tillaart_ad_5993r::initialize and adafruit_mcp_4728::initialize: retry++ < 100
max_probes == 100

DACs == 0 .. (k_dac_count - 1)
Slots == 0 .. (ChannelsPerDac - 1)
k_total_channels == k_dac_count * ChannelsPerDac
Channels == 0 .. (k_total_channels - 1)

\* a MIDI source that delivers nothing
NoTraffic == {}
\* pitch-bend messages (1-based MIDI channel, signed pitch) the MIDI source may deliver
MidiTraffic == { <<1, 4096>>, <<1, -8192>>, <<2, 4096>> }
\* pitch-bend messages after which the MIDI source stays silent
StableTraffic == << <<1, 4096>>, <<2, -4096>>, <<3, 0>>, <<4, 8191>> >>
\* the burst: BurstLen pitch-bend messages on MIDI channel BurstChannel, the last
\* of them with pitch +0x1000, the ones before with pitch 0
BurstChannel == 3
BurstPitch(n) == IF n = BurstLen THEN 4096 ELSE 0
BurstDac == ((BurstChannel - 1) % 256) \div ChannelsPerDac
\* results of TwoWire::endTransmission the bus may give
WireResults == { 0, 2, 4, 1 }

VARIABLES
    \* model switch, fixed by Init: FALSE = sequence numbers are the code's
    \* integers, bounded by MaxSeq; TRUE = renumbered order-preservingly
    renumber,
    \* dr_teeth buffers
    input_buffer, output_buffer,
    \* main.cpp: the mutex shared by the_voice_from_beyond and the_muppet_show
    inspiration,
    voice_pc,
    show_pc, show_dac, show_i,
    \* party_pooper: index of the next DAC shit_storm throws (k_dac_count: in delay)
    pooper_dac,
    \* electric_mayhem_dma members, per DAC
    async_me, muppet_lock,
    update_sequence, update_in_progress, dma_operation_pending,
    \* muppet_worker_dma locals, per DAC; current_sequence is a local of one iteration
    \* of the loop: the model keeps the value read by the iteration that began an
    \* update, the only one that uses it after the check
    worker_pc, last_processed_sequence, current_sequence, use_dma,
    my_personal_buffer_copy, copy_i,
    \* history: a snapshot was taken / a transfer was issued in the update in progress
    snapshot_taken, transfer_issued,
    \* the DAC: LDAC line and the values last written to the chip (<<>>: none yet)
    ldac, dac_values,
    \* async_dac_manager::operation_state_, per DAC
    operation_pending, operation_completed, operation_last_error,
    \* rob_tillaart_ad_5993r_async, per DAC
    async_status, current_callback,
    \* dma_i2c_hal, per DAC
    initialized, hal_state, hal_last_error, hal_callback,
    async_operation_pending, async_operation_complete, pending_transfer,
    \* async_worker_thread, per DAC
    hal_pc, hal_txn,
    \* a client thread that calls the engine's API directly, per engine: its position,
    \* the result of its last call, the transfers it had accepted, the callbacks it got
    client_pc, client_result, transfers_made, callbacks_made,
    \* a burst of pitch-bend messages on BurstChannel: the messages delivered so far,
    \* and the transfers issued to the DAC of that channel since the first of them
    \* and before the last (counted up to MaxBurstTransfers)
    burst_messages, burst_transfers,
    \* dma_error_handler::recovery_state_.fallback_mode, per DAC
    fallback_mode,
    \* electric_mayhem_dma's dma_error_count, per DAC (counted up to MaxErrorCount)
    dma_error_count,
    \* dma_error_handler: recovery_state_.consecutive_errors per DAC, the static
    \* success_counter of notify_success per DAC, the error log (oldest entry first),
    \* recovery_state_.peripheral_reset_count (counted up to MaxResets), and whether
    \* a caller holds an event from handle_error that it has not yet recovered from
    consecutive_errors, success_counter, error_log, peripheral_reset_count, handler_pc,
    \* history, per DAC: the successes notified since the last failure, enabling of
    \* the fallback or reset (counted up to MaxStreak), and the failures handled
    \* since the last success or reset
    success_streak, failure_streak,
    \* dma_timeout_watchdog::trackers_[d].operation_active
    operation_active,
    \* dma_error_handler's ring buffer as the code keeps it: the array error_log_
    \* (of its slots 0 .. MAX_ERROR_LOG_ENTRIES - 1 the ones an event was logged
    \* to), log_write_index_ and log_count_
    error_log_, log_write_index_, log_count_,
    \* history: the events logged since construction and since the log was last
    \* cleared (counted up to MaxLogged)
    events_total, events_since_reset,
    \* calculate_retry_delay: the retry count it was last called with and the delay
    \* it returned
    delay_retry_count, retry_delay,
    \* the pitch-bend message usbMIDI hands to set_channel_value, the position of its
    \* way to the DAC, dr_teeth::input_buffer with all of its channels (the elements
    \* written; the others hold the zero of their static initialization), and the bytes
    \* prepare_dac_write_buffer packs for each DAC
    bend_channel, bend_pitch, bend_pc, all_input, dma_write_buffer_,
    \* a synchronous driver's initialize: its retry counter, its position, the calls of
    \* begin() made, the result of the last of them, and whether the device was configured
    retry, probe_pc, probes, begin_result, dac_mode_set,
    \* the threads dma_i2c_hal::init has added for engine 0, in the order they were
    \* added, with their positions in async_worker_thread, and the calls of
    \* perform_i2c_transfer made
    thread_pc, performs

bufVars  == <<input_buffer, output_buffer>>
seqVars  == <<update_sequence, last_processed_sequence, current_sequence>>
voiceVars == <<voice_pc>>
showVars == <<show_pc, show_dac, show_i>>
workerVars == <<worker_pc, use_dma, my_personal_buffer_copy, copy_i, update_in_progress,
                dma_operation_pending, snapshot_taken, transfer_issued>>
dacVars  == <<ldac, dac_values>>
mgrVars  == <<operation_pending, operation_completed, operation_last_error>>
drvVars  == <<async_status, current_callback>>
halVars  == <<initialized, hal_state, hal_last_error, hal_callback,
              async_operation_pending, async_operation_complete, pending_transfer>>
halThreadVars == <<hal_pc, hal_txn>>
clientVars == <<client_pc, client_result, transfers_made, callbacks_made>>

burstVars == <<burst_messages, burst_transfers>>
handlerVars == <<consecutive_errors, success_counter, error_log, peripheral_reset_count,
                 handler_pc, success_streak, failure_streak, operation_active>>
delayVars == <<delay_retry_count, retry_delay>>
bendVars == <<bend_channel, bend_pitch, bend_pc, all_input, dma_write_buffer_>>
probeVars == <<retry, probe_pc, probes, begin_result, dac_mode_set>>
svcVars == <<thread_pc, performs>>
ringVars == <<error_log_, log_write_index_, log_count_, events_total, events_since_reset>>
errVars == <<fallback_mode, dma_error_count, handlerVars>>
vars == <<renumber, svcVars, probeVars, bendVars, delayVars, ringVars, errVars, burstVars, clientVars, bufVars, inspiration, voiceVars, showVars, pooper_dac, async_me, muppet_lock,
          seqVars, workerVars, dacVars, mgrVars, drvVars, halVars, halThreadVars>>

-----------------------------------------------------------------------------
(* Sequence numbers.  update_sequence and the worker's copies of it are uint32_t. *)
(* The model holds a uint32_t as the integer with the same 32-bit pattern in      *)
(* two's complement: 0 .. 2^31-1 stand for themselves, -1 stands for 0xFFFFFFFF,  *)
(* -2 for 0xFFFFFFFE.  With it `++` is + 1, also from 0xFFFFFFFF to 0.            *)

\* a <= b as the uint32_t values compare
ULeq(a, b) == IF (a < 0) = (b < 0) THEN a <= b ELSE b < 0

\* order-preserving renumbering of a DAC's three sequence values to 0, 1, 2: the
\* code copies the values, increments update_sequence and compares with !=, and
\* none of these can tell renumbered values from the original ones
Canon(t) ==
    LET S == { t[k] : k \in 1..3 }
    IN  [ k \in 1..3 |-> Cardinality({ y \in S : y < t[k] }) ]

\* the next values of DAC d's update_sequence, last_processed_sequence and
\* current_sequence
PutSeq(d, u, l, c) ==
    LET t == IF renumber THEN Canon(<<u, l, c>>) ELSE <<u, l, c>>
    IN  /\ update_sequence' = [update_sequence EXCEPT ![d] = t[1]]
        /\ last_processed_sequence' = [last_processed_sequence EXCEPT ![d] = t[2]]
        /\ current_sequence' = [current_sequence EXCEPT ![d] = t[3]]

\* a throw that counts two publications for one
throw_muppet_twice(d) ==
    /\ renumber \/ update_sequence[d] + 1 < MaxSeq
    /\ PutSeq(d, update_sequence[d] + 2, last_processed_sequence[d], current_sequence[d])

\* throw_muppet_in_the_mud: update_sequence++ under state_mutex
throw_muppet_in_the_mud(d) ==
    /\ renumber \/ update_sequence[d] < MaxSeq
    /\ PutSeq(d, update_sequence[d] + 1, last_processed_sequence[d], current_sequence[d])

-----------------------------------------------------------------------------
(* MIDI ingress: the_voice_from_beyond, midi_read, set_channel_value *)

\* ScaledPitch without the offset of the zero of the pitch
ScaledPitchUnbiased(pitch) ==
    LET m == IF pitch < k_midi_pitch_14_bit_max THEN pitch ELSE k_midi_pitch_14_bit_max
    IN  (m * k_midi_to_framework_scale) % 65536

\* the 16-bit value set_channel_value stores for a pitch
ScaledPitch(pitch) ==
    LET biased == pitch + k_midi_pitch_zero_offset
        m == IF biased < k_midi_pitch_14_bit_max THEN biased ELSE k_midi_pitch_14_bit_max
    IN  (m * k_midi_to_framework_scale) % 65536

\* input_buffer after set_channel_value( channel, pitch )
set_channel_value(buf, channel, pitch) ==
    LET channel_index == (channel - 1) % 256
    IN  IF channel_index >= k_total_channels
        THEN buf
        ELSE [buf EXCEPT ![channel_index] = ScaledPitch(pitch)]

VoiceLock ==
    /\ voice_pc = "lock"
    /\ inspiration = "free"
    /\ inspiration' = "voice"
    /\ voice_pc' = "midi_read"
    /\ UNCHANGED <<renumber, svcVars, probeVars, bendVars, delayVars, ringVars, errVars, burstVars, clientVars, bufVars, showVars, pooper_dac, async_me, muppet_lock, seqVars,
                   workerVars, dacVars, mgrVars, drvVars, halVars, halThreadVars>>

\* usbMIDI.read(): no message, or one pitch-bend message of `traffic`
VoiceMidiRead(traffic) ==
    /\ voice_pc = "midi_read"
    /\ \/ UNCHANGED input_buffer
       \/ \E m \in traffic : input_buffer' = set_channel_value(input_buffer, m[1], m[2])
    /\ voice_pc' = "unlock"
    /\ UNCHANGED <<renumber, svcVars, probeVars, bendVars, delayVars, ringVars, errVars, burstVars, clientVars, output_buffer, inspiration, showVars, pooper_dac, async_me,
                   muppet_lock, seqVars, workerVars, dacVars, mgrVars, drvVars, halVars,
                   halThreadVars>>

\* usbMIDI.read() during the burst: no message, or the next message of the burst
VoiceBurstRead ==
    /\ voice_pc = "midi_read"
    /\ \/ UNCHANGED <<input_buffer, burst_messages>>
       \/ /\ burst_messages < BurstLen
          /\ burst_messages' = burst_messages + 1
          /\ input_buffer' = set_channel_value(input_buffer, BurstChannel,
                                               BurstPitch(burst_messages + 1))
    /\ voice_pc' = "unlock"
    /\ UNCHANGED <<renumber, svcVars, probeVars, bendVars, delayVars, ringVars, errVars, burst_transfers, clientVars, output_buffer, inspiration, showVars,
                   pooper_dac, async_me, muppet_lock, seqVars, workerVars, dacVars, mgrVars,
                   drvVars, halVars, halThreadVars>>

VoiceUnlock ==
    /\ voice_pc = "unlock"
    /\ inspiration' = "free"
    /\ voice_pc' = "lock"
    /\ UNCHANGED <<renumber, svcVars, probeVars, bendVars, delayVars, ringVars, errVars, burstVars, clientVars, bufVars, showVars, pooper_dac, async_me, muppet_lock, seqVars,
                   workerVars, dacVars, mgrVars, drvVars, halVars, halThreadVars>>

-----------------------------------------------------------------------------
(* Dispatcher: the_muppet_show and dr_teeth::go_muppets *)

ShowLock ==
    /\ show_pc = "lock"
    /\ inspiration = "free"
    /\ inspiration' = "show"
    /\ show_pc' = "attention_please"
    /\ show_dac' = 0
    /\ UNCHANGED <<renumber, svcVars, probeVars, bendVars, delayVars, ringVars, errVars, burstVars, clientVars, bufVars, voiceVars, show_i, pooper_dac, async_me, muppet_lock,
                   seqVars, workerVars, dacVars, mgrVars, drvVars, halVars, halThreadVars>>

\* a dispatcher that also waits until the DAC's update in progress has ended
attention_please_when_idle ==
    /\ show_pc \in {"attention_please", "waiting"}
    /\ IF muppet_lock[show_dac] = "free" /\ ~update_in_progress[show_dac]
       THEN /\ muppet_lock' = [muppet_lock EXCEPT ![show_dac] = "show"]
            /\ show_pc' = "memcpy"
            /\ show_i' = 0
       ELSE /\ show_pc = "attention_please"
            /\ show_pc' = "waiting"
            /\ UNCHANGED <<muppet_lock, show_i>>
    /\ UNCHANGED <<renumber, svcVars, probeVars, bendVars, delayVars, ringVars, errVars, burstVars, clientVars, bufVars, inspiration, voiceVars, show_dac, pooper_dac, async_me,
                   seqVars, workerVars, dacVars, mgrVars, drvVars, halVars, halThreadVars>>

\* attention_please: muppet_lock_[d].lock() with no timeout: it takes the lock when
\* it is free and otherwise waits in Threads::Mutex::lock until it is; it returns 1
attention_please ==
    /\ show_pc \in {"attention_please", "waiting"}
    /\ IF muppet_lock[show_dac] = "free"
       THEN /\ muppet_lock' = [muppet_lock EXCEPT ![show_dac] = "show"]
            /\ show_pc' = "memcpy"
            /\ show_i' = 0
       ELSE /\ show_pc = "attention_please"
            /\ show_pc' = "waiting"
            /\ UNCHANGED <<muppet_lock, show_i>>
    /\ UNCHANGED <<renumber, svcVars, probeVars, bendVars, delayVars, ringVars, errVars, burstVars, clientVars, bufVars, inspiration, voiceVars, show_dac, pooper_dac, async_me,
                   seqVars, workerVars, dacVars, mgrVars, drvVars, halVars, halThreadVars>>

\* a dispatcher that takes the steps of the copy and leaves the output buffer as it is
ShowMemcpySkips ==
    /\ show_pc = "memcpy"
    /\ IF show_i + 1 < ChannelsPerDac
       THEN show_i' = show_i + 1 /\ UNCHANGED show_pc
       ELSE show_i' = 0 /\ show_pc' = "throw"
    /\ UNCHANGED <<renumber, svcVars, probeVars, bendVars, delayVars, ringVars, errVars, burstVars, clientVars, bufVars, inspiration, voiceVars, show_dac, pooper_dac,
                   async_me, muppet_lock, seqVars, workerVars, dacVars, mgrVars, drvVars,
                   halVars, halThreadVars>>

\* one element of memcpy( &output_buffer[ start ], &input_buffer[ start ], ... )
ShowMemcpy ==
    /\ show_pc = "memcpy"
    /\ LET ch == show_dac * ChannelsPerDac + show_i
       IN  output_buffer' = [output_buffer EXCEPT ![ch] = input_buffer[ch]]
    /\ IF show_i + 1 < ChannelsPerDac
       THEN show_i' = show_i + 1 /\ UNCHANGED show_pc
       ELSE show_i' = 0 /\ show_pc' = "throw"
    /\ UNCHANGED <<renumber, svcVars, probeVars, bendVars, delayVars, ringVars, errVars, burstVars, clientVars, input_buffer, inspiration, voiceVars, show_dac, pooper_dac,
                   async_me, muppet_lock, seqVars, workerVars, dacVars, mgrVars, drvVars,
                   halVars, halThreadVars>>

ShowThrow ==
    /\ show_pc = "throw"
    /\ throw_muppet_in_the_mud(show_dac)
    /\ show_pc' = "thanks"
    /\ UNCHANGED <<renumber, svcVars, probeVars, bendVars, delayVars, ringVars, errVars, burstVars, clientVars, bufVars, inspiration, voiceVars, show_dac, show_i, pooper_dac,
                   async_me, muppet_lock, workerVars, dacVars, mgrVars, drvVars, halVars,
                   halThreadVars>>

\* thanks( d ), then the next DAC of the loop or the end of go_muppets
ShowThanks ==
    /\ show_pc = "thanks"
    /\ muppet_lock' = [muppet_lock EXCEPT ![show_dac] = "free"]
    /\ IF show_dac + 1 < k_dac_count
       THEN show_dac' = show_dac + 1 /\ show_pc' = "attention_please"
       ELSE show_dac' = 0 /\ show_pc' = "unlock"
    /\ UNCHANGED <<renumber, svcVars, probeVars, bendVars, delayVars, ringVars, errVars, burstVars, clientVars, bufVars, inspiration, voiceVars, show_i, pooper_dac, async_me,
                   seqVars, workerVars, dacVars, mgrVars, drvVars, halVars, halThreadVars>>

ShowUnlock ==
    /\ show_pc = "unlock"
    /\ inspiration' = "free"
    /\ show_pc' = "lock"
    /\ UNCHANGED <<renumber, svcVars, probeVars, bendVars, delayVars, ringVars, errVars, burstVars, clientVars, bufVars, voiceVars, show_dac, show_i, pooper_dac, async_me,
                   muppet_lock, seqVars, workerVars, dacVars, mgrVars, drvVars, halVars,
                   halThreadVars>>

-----------------------------------------------------------------------------
(* Refresh watchdog: party_pooper and shit_storm *)

\* a watchdog that passes over a DAC whose lock is held or whose update is in progress
PooperThrowIfIdle ==
    /\ IF muppet_lock[pooper_dac] = "free" /\ ~update_in_progress[pooper_dac]
       THEN throw_muppet_in_the_mud(pooper_dac)
       ELSE UNCHANGED seqVars
    /\ pooper_dac' = (pooper_dac + 1) % k_dac_count
    /\ UNCHANGED <<renumber, svcVars, probeVars, bendVars, delayVars, ringVars, errVars, burstVars, clientVars, bufVars, inspiration, voiceVars, showVars, async_me, muppet_lock,
                   workerVars, dacVars, mgrVars, drvVars, halVars, halThreadVars>>

\* shit_storm throws the muppet of one DAC; after the last DAC party_pooper sleeps
\* k_force_refresh_every_millis, which changes nothing, and starts again
PooperThrow ==
    /\ throw_muppet_in_the_mud(pooper_dac)
    /\ pooper_dac' = (pooper_dac + 1) % k_dac_count
    /\ UNCHANGED <<renumber, svcVars, probeVars, bendVars, delayVars, ringVars, errVars, burstVars, clientVars, bufVars, inspiration, voiceVars, showVars, async_me, muppet_lock,
                   workerVars, dacVars, mgrVars, drvVars, halVars, halThreadVars>>

-----------------------------------------------------------------------------
(* dma_i2c_hal: the transfer engine *)

\* perform_i2c_transfer: the error code for a result of endTransmission
WireError(w) ==
    CASE w = 0 -> "SUCCESS"
      [] w = 2 -> "NAK_RECEIVED"
      [] w = 3 -> "NAK_RECEIVED"
      [] w = 4 -> "TIMEOUT"
      [] OTHER -> "DMA_ERROR"

\* what transfer_async returns; valid: a data buffer, a length and a callback are given
TransferAsyncResult(d, valid) ==
    IF ~initialized[d] THEN "NOT_INITIALIZED"
    ELSE IF hal_state[d] = "DMA_IN_PROGRESS" THEN "BUSY"
    ELSE IF ~valid THEN "INVALID_PARAMETER"
    ELSE "SUCCESS"

\* transfer_async: what it does to the engine
transfer_async(d, transfer, callback) ==
    IF TransferAsyncResult(d, transfer # <<>> /\ callback # "none") = "SUCCESS"
    THEN /\ hal_callback' = [hal_callback EXCEPT ![d] = callback]
         /\ pending_transfer' = [pending_transfer EXCEPT ![d] = transfer]
         /\ async_operation_pending' = [async_operation_pending EXCEPT ![d] = TRUE]
         /\ async_operation_complete' = [async_operation_complete EXCEPT ![d] = FALSE]
         /\ hal_state' = [hal_state EXCEPT ![d] = "DMA_IN_PROGRESS"]
         /\ hal_last_error' = [hal_last_error EXCEPT ![d] = "SUCCESS"]
         /\ UNCHANGED initialized
    ELSE UNCHANGED halVars

\* abort_transfer: what it does to the engine
abort_transfer(d) ==
    IF initialized[d] /\ hal_state[d] = "DMA_IN_PROGRESS"
    THEN /\ async_operation_pending' = [async_operation_pending EXCEPT ![d] = FALSE]
         /\ async_operation_complete' = [async_operation_complete EXCEPT ![d] = TRUE]
         /\ hal_state' = [hal_state EXCEPT ![d] = "ERROR_DMA_FAILURE"]
         /\ hal_last_error' = [hal_last_error EXCEPT ![d] = "DMA_ERROR"]
         /\ UNCHANGED <<initialized, hal_callback, pending_transfer>>
    ELSE UNCHANGED halVars

-----------------------------------------------------------------------------
(* rob_tillaart_ad_5993r and rob_tillaart_ad_5993r_async: the driver *)

\* dac_value_rescale: 16 bit to 12 bit
dac_value_rescale(value) == (value * 4095) \div 65535

\* what set_values and prepare_dac_write_buffer send for a snapshot: the rescaled
\* value of every channel, in channel order
DacWriteBuffer(values) == [ k \in 1..ChannelsPerDac |-> dac_value_rescale(values[k - 1]) ]

\* what set_values_async returns
SetValuesAsyncResult(d) ==
    IF ~initialized[d] THEN "NOT_INITIALIZED"
    ELSE IF async_status[d] = "IN_PROGRESS" THEN "BUSY"
    ELSE TransferAsyncResult(d, TRUE)

\* set_values_async( values, callback, user_data )
set_values_async(d, values, callback) ==
    IF ~initialized[d] \/ async_status[d] = "IN_PROGRESS"
    THEN UNCHANGED <<drvVars, halVars>>
    ELSE /\ transfer_async(d, DacWriteBuffer(values), "dma_completion_callback")
         /\ IF TransferAsyncResult(d, TRUE) = "SUCCESS"
            THEN /\ async_status' = [async_status EXCEPT ![d] = "IN_PROGRESS"]
                 /\ current_callback' = [current_callback EXCEPT ![d] = callback]
            ELSE /\ async_status' = [async_status EXCEPT ![d] = "ERROR_OCCURRED"]
                 /\ current_callback' = [current_callback EXCEPT ![d] = "none"]

\* async_dac_manager::async_operation_callback( success, error, manager )
async_operation_callback(d, success, error) ==
    /\ operation_completed' = [operation_completed EXCEPT ![d] = TRUE]
    /\ operation_last_error' = [operation_last_error EXCEPT ![d] =
                                    IF success THEN "SUCCESS" ELSE error]
    /\ UNCHANGED operation_pending

\* dma_completion_callback( state, error, driver )
dma_completion_callback(d, state, error) ==
    IF current_callback[d] = "none"
    THEN UNCHANGED <<drvVars, mgrVars>>
    ELSE /\ async_status' = [async_status EXCEPT ![d] =
                                IF state = "COMPLETED" THEN "COMPLETED" ELSE "ERROR_OCCURRED"]
         /\ async_operation_callback(d, state = "COMPLETED", error)
         /\ current_callback' = [current_callback EXCEPT ![d] = "none"]

-----------------------------------------------------------------------------
(* async_dac_manager *)

\* whether initiate_async_update returns true
InitiateAsyncUpdateResult(d) ==
    ~operation_pending[d] /\ SetValuesAsyncResult(d) = "SUCCESS"

\* initiate_async_update( values )
initiate_async_update(d, values) ==
    IF operation_pending[d]
    THEN UNCHANGED <<mgrVars, drvVars, halVars>>
    ELSE /\ set_values_async(d, values, "async_operation_callback")
         /\ operation_pending' = [operation_pending EXCEPT ![d] =
                                     SetValuesAsyncResult(d) = "SUCCESS"]
         /\ operation_completed' = [operation_completed EXCEPT ![d] = FALSE]
         /\ operation_last_error' = [operation_last_error EXCEPT ![d] = SetValuesAsyncResult(d)]

\* an error check that never reports an error
has_operation_error_never(d) == FALSE

\* has_operation_error
has_operation_error(d) == operation_last_error[d] # "SUCCESS"

\* reset_operation_state
reset_operation_state(d) ==
    /\ operation_pending' = [operation_pending EXCEPT ![d] = FALSE]
    /\ operation_completed' = [operation_completed EXCEPT ![d] = FALSE]
    /\ operation_last_error' = [operation_last_error EXCEPT ![d] = "SUCCESS"]

-----------------------------------------------------------------------------
(* async_worker_thread: the engine's service thread *)

\* it finds an operation pending and not complete and starts the bus transaction
HalStart(d) ==
    /\ initialized[d]
    /\ hal_pc[d] = "idle"
    /\ async_operation_pending[d] /\ ~async_operation_complete[d]
    /\ hal_pc' = [hal_pc EXCEPT ![d] = "perform_i2c_transfer"]
    /\ hal_txn' = [hal_txn EXCEPT ![d] = pending_transfer[d]]
    /\ UNCHANGED <<renumber, svcVars, probeVars, bendVars, delayVars, ringVars, errVars, burstVars, clientVars, bufVars, inspiration, voiceVars, showVars, pooper_dac, async_me,
                   muppet_lock, seqVars, workerVars, dacVars, mgrVars, drvVars, halVars>>

\* the bus transaction ends with result w: state, flags, then the callback
HalFinish(d) ==
    /\ hal_pc[d] = "perform_i2c_transfer"
    /\ \E w \in WireResults :
        LET result == WireError(w)
            state == IF result = "SUCCESS" THEN "COMPLETED" ELSE "ERROR_DMA_FAILURE"
        IN  /\ hal_state' = [hal_state EXCEPT ![d] = state]
            /\ hal_last_error' = [hal_last_error EXCEPT ![d] = result]
            /\ async_operation_complete' = [async_operation_complete EXCEPT ![d] = TRUE]
            /\ async_operation_pending' = [async_operation_pending EXCEPT ![d] = FALSE]
            /\ dac_values' = IF w = 0 THEN [dac_values EXCEPT ![d] = hal_txn[d]] ELSE dac_values
            /\ IF hal_callback[d] = "dma_completion_callback"
               THEN dma_completion_callback(d, state, result)
               ELSE UNCHANGED <<drvVars, mgrVars>>
            /\ callbacks_made' = IF hal_callback[d] = "client_callback"
                                 THEN [callbacks_made EXCEPT ![d] = @ + 1]
                                 ELSE callbacks_made
    /\ hal_pc' = [hal_pc EXCEPT ![d] = "idle"]
    /\ hal_txn' = [hal_txn EXCEPT ![d] = <<>>]
    /\ UNCHANGED <<renumber, svcVars, probeVars, bendVars, delayVars, ringVars, errVars, burstVars, client_pc, client_result, transfers_made, bufVars, inspiration, voiceVars, showVars, pooper_dac, async_me,
                   muppet_lock, seqVars, workerVars, ldac, initialized, hal_callback,
                   pending_transfer>>

-----------------------------------------------------------------------------
(* electric_mayhem_dma::muppet_worker_dma, the worker of DAC d *)

\* the count of transfers of a burst after the worker of d has issued a transfer
CountTransfer(d) ==
    burst_transfers' =
        IF d = BurstDac /\ 0 < burst_messages /\ burst_messages < BurstLen
                        /\ burst_transfers < MaxBurstTransfers
        THEN burst_transfers + 1
        ELSE burst_transfers

\* should_update without its two flags: the sequence comparison alone
ShouldUpdateSeqOnly(d) == update_sequence[d] # last_processed_sequence[d]

\* should_update, from the values the check reads under state_mutex
ShouldUpdate(d) ==
    /\ update_sequence[d] # last_processed_sequence[d]
    /\ ~update_in_progress[d]
    /\ ~dma_operation_pending[d]

\* use_dma; the DMA mode is ENABLED (main.cpp sets it so)
UseDma(d) == async_me[d] /\ initialized[d]

\* the completion poll at the head of the loop, with reset_operation_state
WorkerPollCompletion(d) ==
    /\ worker_pc[d] = "poll"
    /\ worker_pc' = [worker_pc EXCEPT ![d] = "check"]
    /\ IF dma_operation_pending[d] /\ async_me[d] /\ operation_completed[d]
       THEN /\ dma_operation_pending' = [dma_operation_pending EXCEPT ![d] = FALSE]
            /\ update_in_progress' = [update_in_progress EXCEPT ![d] = FALSE]
            /\ IF ~has_operation_error(d)
               THEN PutSeq(d, update_sequence[d], update_sequence[d], current_sequence[d])
               ELSE UNCHANGED seqVars
            /\ reset_operation_state(d)
            /\ snapshot_taken' = [snapshot_taken EXCEPT ![d] = FALSE]
            /\ transfer_issued' = [transfer_issued EXCEPT ![d] = FALSE]
       ELSE UNCHANGED <<dma_operation_pending, update_in_progress, seqVars, mgrVars,
                        snapshot_taken, transfer_issued>>
    /\ UNCHANGED <<renumber, svcVars, probeVars, bendVars, delayVars, ringVars, burstVars, clientVars, bufVars, inspiration, voiceVars, showVars, pooper_dac, async_me,
                   muppet_lock, use_dma, my_personal_buffer_copy, copy_i, dacVars, drvVars,
                   halVars, halThreadVars>>

\* the completion poll; dma_error_count is a statistic that nothing in the firmware
\* reads, left out here and counted in WorkerPollCounting
WorkerPoll(d) == WorkerPollCompletion(d) /\ UNCHANGED errVars

\* the completion poll with my_state.dma_error_count++ on a failed operation
WorkerPollCounting(d) ==
    /\ WorkerPollCompletion(d)
    /\ dma_error_count' =
          IF dma_operation_pending[d] /\ async_me[d] /\ operation_completed[d]
             /\ has_operation_error(d) /\ dma_error_count[d] < MaxErrorCount
          THEN [dma_error_count EXCEPT ![d] = @ + 1]
          ELSE dma_error_count
    /\ UNCHANGED <<fallback_mode, handlerVars>>

\* the check under state_mutex; without an update the loop yields and starts again
WorkerCheck(d) ==
    /\ worker_pc[d] = "check"
    /\ IF ShouldUpdate(d)
       THEN /\ PutSeq(d, update_sequence[d], last_processed_sequence[d], update_sequence[d])
            /\ update_in_progress' = [update_in_progress EXCEPT ![d] = TRUE]
            /\ use_dma' = [use_dma EXCEPT ![d] = UseDma(d)]
            /\ worker_pc' = [worker_pc EXCEPT ![d] = "lock"]
       ELSE \* the value read while an update is in progress is never used
            /\ PutSeq(d, update_sequence[d], last_processed_sequence[d],
                      IF update_in_progress[d] THEN current_sequence[d]
                                               ELSE update_sequence[d])
            /\ worker_pc' = [worker_pc EXCEPT ![d] = "poll"]
            /\ UNCHANGED <<update_in_progress, use_dma>>
    /\ UNCHANGED <<renumber, svcVars, probeVars, bendVars, delayVars, ringVars, errVars, burstVars, clientVars, bufVars, inspiration, voiceVars, showVars, pooper_dac, async_me,
                   muppet_lock, dma_operation_pending, my_personal_buffer_copy, copy_i,
                   snapshot_taken, transfer_issued, dacVars, mgrVars, drvVars, halVars,
                   halThreadVars>>

\* a worker that goes on to the copy without waiting for my_lock
WorkerLockNoWait(d) ==
    /\ worker_pc[d] = "lock"
    /\ muppet_lock' = [muppet_lock EXCEPT ![d] = "worker"]
    /\ worker_pc' = [worker_pc EXCEPT ![d] = "memcpy"]
    /\ copy_i' = [copy_i EXCEPT ![d] = 0]
    /\ UNCHANGED <<renumber, svcVars, probeVars, bendVars, delayVars, ringVars, errVars, burstVars, clientVars, bufVars, inspiration, voiceVars, showVars, pooper_dac, async_me,
                   seqVars, use_dma, my_personal_buffer_copy, update_in_progress,
                   dma_operation_pending, snapshot_taken, transfer_issued, dacVars, mgrVars,
                   drvVars, halVars, halThreadVars>>

\* my_lock.lock()
WorkerLock(d) ==
    /\ worker_pc[d] = "lock"
    /\ muppet_lock[d] = "free"
    /\ muppet_lock' = [muppet_lock EXCEPT ![d] = "worker"]
    /\ worker_pc' = [worker_pc EXCEPT ![d] = "memcpy"]
    /\ copy_i' = [copy_i EXCEPT ![d] = 0]
    /\ UNCHANGED <<renumber, svcVars, probeVars, bendVars, delayVars, ringVars, errVars, burstVars, clientVars, bufVars, inspiration, voiceVars, showVars, pooper_dac, async_me,
                   seqVars, use_dma, my_personal_buffer_copy, update_in_progress,
                   dma_operation_pending, snapshot_taken, transfer_issued, dacVars, mgrVars,
                   drvVars, halVars, halThreadVars>>

\* memcpy( my_personal_buffer_copy, my_output_buffer, ... ), one element a step
WorkerMemcpy(d) ==
    /\ worker_pc[d] = "memcpy"
    /\ my_personal_buffer_copy' = [my_personal_buffer_copy EXCEPT
            ![d][copy_i[d]] = output_buffer[d * ChannelsPerDac + copy_i[d]]]
    /\ IF copy_i[d] + 1 < ChannelsPerDac
       THEN /\ copy_i' = [copy_i EXCEPT ![d] = copy_i[d] + 1]
            /\ UNCHANGED <<worker_pc, snapshot_taken>>
       ELSE /\ copy_i' = [copy_i EXCEPT ![d] = 0]
            /\ worker_pc' = [worker_pc EXCEPT ![d] = "unlock"]
            /\ snapshot_taken' = [snapshot_taken EXCEPT ![d] = TRUE]
    /\ UNCHANGED <<renumber, svcVars, probeVars, bendVars, delayVars, ringVars, errVars, burstVars, clientVars, bufVars, inspiration, voiceVars, showVars, pooper_dac, async_me,
                   muppet_lock, seqVars, use_dma, update_in_progress, dma_operation_pending,
                   transfer_issued, dacVars, mgrVars, drvVars, halVars, halThreadVars>>

\* a worker that goes on without my_lock.unlock()
WorkerUnlockKeepsLock(d) ==
    /\ worker_pc[d] = "unlock"
    /\ worker_pc' = [worker_pc EXCEPT ![d] = "transfer"]
    /\ UNCHANGED <<renumber, svcVars, probeVars, bendVars, delayVars, ringVars, errVars, burstVars, clientVars, bufVars, inspiration, voiceVars, showVars, pooper_dac, async_me,
                   muppet_lock, seqVars, use_dma, my_personal_buffer_copy, copy_i,
                   update_in_progress, dma_operation_pending, snapshot_taken, transfer_issued,
                   dacVars, mgrVars, drvVars, halVars, halThreadVars>>

\* my_lock.unlock()
WorkerUnlock(d) ==
    /\ worker_pc[d] = "unlock"
    /\ muppet_lock' = [muppet_lock EXCEPT ![d] = "free"]
    /\ worker_pc' = [worker_pc EXCEPT ![d] = "transfer"]
    /\ UNCHANGED <<renumber, svcVars, probeVars, bendVars, delayVars, ringVars, errVars, burstVars, clientVars, bufVars, inspiration, voiceVars, showVars, pooper_dac, async_me,
                   seqVars, use_dma, my_personal_buffer_copy, copy_i, update_in_progress,
                   dma_operation_pending, snapshot_taken, transfer_issued, dacVars, mgrVars,
                   drvVars, halVars, halThreadVars>>

\* me.enable(), and on the DMA path initiate_async_update( async_values )
WorkerTransfer(d) ==
    /\ worker_pc[d] = "transfer"
    /\ ldac' = [ldac EXCEPT ![d] = TRUE]
    /\ IF use_dma[d]
       THEN /\ initiate_async_update(d, my_personal_buffer_copy[d])
            /\ IF InitiateAsyncUpdateResult(d)
               THEN /\ worker_pc' = [worker_pc EXCEPT ![d] = "dma_started"]
                    /\ transfer_issued' = [transfer_issued EXCEPT ![d] = TRUE]
                    /\ CountTransfer(d)
               ELSE /\ worker_pc' = [worker_pc EXCEPT ![d] = "set_values"]
                    /\ UNCHANGED <<transfer_issued, burst_transfers>>
       ELSE /\ worker_pc' = [worker_pc EXCEPT ![d] = "set_values"]
            /\ UNCHANGED <<transfer_issued, burst_transfers, mgrVars, drvVars, halVars>>
    /\ UNCHANGED <<renumber, svcVars, probeVars, bendVars, delayVars, ringVars, errVars, burst_messages, clientVars, bufVars, inspiration, voiceVars, showVars, pooper_dac, async_me,
                   muppet_lock, seqVars, use_dma, my_personal_buffer_copy, copy_i,
                   update_in_progress, dma_operation_pending, snapshot_taken, dac_values,
                   halThreadVars>>

\* the DMA operation started: dma_operation_pending = true under state_mutex, then yield
WorkerDmaStarted(d) ==
    /\ worker_pc[d] = "dma_started"
    /\ dma_operation_pending' = [dma_operation_pending EXCEPT ![d] = TRUE]
    /\ worker_pc' = [worker_pc EXCEPT ![d] = "poll"]
    /\ UNCHANGED <<renumber, svcVars, probeVars, bendVars, delayVars, ringVars, errVars, burstVars, clientVars, bufVars, inspiration, voiceVars, showVars, pooper_dac, async_me,
                   muppet_lock, seqVars, use_dma, my_personal_buffer_copy, copy_i,
                   update_in_progress, snapshot_taken, transfer_issued, dacVars, mgrVars,
                   drvVars, halVars, halThreadVars>>

\* the synchronous transfer (also the fallback when the DMA operation did not start):
\* me.set_values, me.disable, then last_processed_sequence = current_sequence and
\* update_in_progress = false under state_mutex, then yield
WorkerSetValues(d) ==
    /\ worker_pc[d] = "set_values"
    /\ dac_values' = [dac_values EXCEPT ![d] = DacWriteBuffer(my_personal_buffer_copy[d])]
    /\ ldac' = [ldac EXCEPT ![d] = FALSE]
    /\ snapshot_taken' = [snapshot_taken EXCEPT ![d] = FALSE]
    /\ transfer_issued' = [transfer_issued EXCEPT ![d] = FALSE]
    /\ PutSeq(d, update_sequence[d], current_sequence[d], current_sequence[d])
    /\ update_in_progress' = [update_in_progress EXCEPT ![d] = FALSE]
    /\ worker_pc' = [worker_pc EXCEPT ![d] = "poll"]
    /\ CountTransfer(d)
    /\ UNCHANGED <<renumber, svcVars, probeVars, bendVars, delayVars, ringVars, errVars, burst_messages, clientVars, bufVars, inspiration, voiceVars, showVars, pooper_dac, async_me,
                   muppet_lock, use_dma, my_personal_buffer_copy, copy_i,
                   dma_operation_pending, mgrVars, drvVars, halVars, halThreadVars>>

-----------------------------------------------------------------------------
(* The firmware after setup() *)

\* the ring buffer after dma_error_handler's constructor: nothing was logged to
\* any slot
InitRing ==
    /\ error_log_ = <<>>
    /\ log_write_index_ = 0
    /\ log_count_ = 0
    /\ events_total = 0
    /\ events_since_reset = 0

\* no retry delay has been calculated
InitDelay == delay_retry_count = 0 /\ retry_delay = 0

\* before usbMIDI has delivered a pitch-bend message: no element of input_buffer
\* was written, and nothing was packed into a dma_write_buffer_
InitBend ==
    /\ bend_pc = "read"
    /\ bend_channel = 0 /\ bend_pitch = 0
    /\ all_input = <<>>
    /\ dma_write_buffer_ = [d \in DACs |-> <<>>]

\* before a synchronous driver's initialize is called
InitProbe ==
    /\ probe_pc = "idle"
    /\ retry = 0 /\ probes = 0
    /\ begin_result = FALSE /\ dac_mode_set = FALSE

\* before dma_i2c_hal::init has added a thread
InitSvc ==
    /\ thread_pc = <<>>
    /\ performs = 0

\* the state after dma_error_handler's and dma_timeout_watchdog's constructors
InitHandler ==
    /\ InitRing
    /\ InitDelay
    /\ InitBend
    /\ InitProbe
    /\ InitSvc
    /\ consecutive_errors = [d \in DACs |-> 0]
    /\ success_counter = [d \in DACs |-> 0]
    /\ error_log = <<>>
    /\ peripheral_reset_count = 0
    /\ handler_pc = "idle"
    /\ success_streak = [d \in DACs |-> 0]
    /\ failure_streak = [d \in DACs |-> 0]
    /\ operation_active = [d \in DACs |-> FALSE]

\* the state of the firmware's own objects after construction
InitCore ==
    /\ output_buffer = [c \in Channels |-> 0]
    /\ inspiration = "free"
    /\ voice_pc = "lock"
    /\ show_pc = "lock" /\ show_dac = 0 /\ show_i = 0
    /\ pooper_dac = 0
    /\ muppet_lock = [d \in DACs |-> "free"]
    /\ update_sequence = [d \in DACs |-> 1]
    /\ update_in_progress = [d \in DACs |-> FALSE]
    /\ dma_operation_pending = [d \in DACs |-> FALSE]
    /\ worker_pc = [d \in DACs |-> "poll"]
    /\ last_processed_sequence = [d \in DACs |-> 0]
    /\ current_sequence = [d \in DACs |-> 0]
    /\ use_dma = [d \in DACs |-> FALSE]
    /\ my_personal_buffer_copy = [d \in DACs |-> [i \in Slots |-> 0]]
    /\ copy_i = [d \in DACs |-> 0]
    /\ snapshot_taken = [d \in DACs |-> FALSE]
    /\ transfer_issued = [d \in DACs |-> FALSE]
    /\ ldac = [d \in DACs |-> FALSE]
    /\ dac_values = [d \in DACs |-> [k \in 1..ChannelsPerDac |-> 0]]
    /\ operation_pending = [d \in DACs |-> FALSE]
    /\ operation_completed = [d \in DACs |-> FALSE]
    /\ operation_last_error = [d \in DACs |-> "SUCCESS"]
    /\ async_status = [d \in DACs |-> "READY"]
    /\ current_callback = [d \in DACs |-> "none"]
    /\ hal_state = [d \in DACs |-> "IDLE"]
    /\ hal_last_error = [d \in DACs |-> "SUCCESS"]
    /\ hal_callback = [d \in DACs |-> "none"]
    /\ async_operation_pending = [d \in DACs |-> FALSE]
    /\ async_operation_complete = [d \in DACs |-> FALSE]
    /\ pending_transfer = [d \in DACs |-> <<>>]
    /\ hal_pc = [d \in DACs |-> "idle"]
    /\ hal_txn = [d \in DACs |-> <<>>]
    /\ client_pc = [d \in DACs |-> "idle"]
    /\ client_result = [d \in DACs |-> "SUCCESS"]
    /\ transfers_made = [d \in DACs |-> 0]
    /\ callbacks_made = [d \in DACs |-> 0]
    /\ burst_messages = 0
    /\ burst_transfers = 0
    /\ fallback_mode = [d \in DACs |-> FALSE]
    /\ dma_error_count = [d \in DACs |-> 0]

\* the state of everything but the choice of drivers after construction
InitMembers == InitCore /\ InitHandler

\* the state after electric_mayhem_dma::initialize; a DAC has the asynchronous
\* driver (async_me, with its engine initialized) or only the synchronous one
InitFirmware ==
    /\ InitMembers
    /\ input_buffer = [c \in Channels |-> 0]
    /\ async_me \in { f \in [DACs -> BOOLEAN] :
                          Cardinality({ d \in DACs : f[d] }) <= MaxAsyncDacs }
    /\ initialized = async_me

Init == renumber = FALSE /\ InitFirmware

Voice == VoiceLock \/ VoiceMidiRead(NoTraffic) \/ VoiceUnlock
Show == ShowLock \/ attention_please \/ ShowMemcpy \/ ShowThrow \/ ShowThanks \/ ShowUnlock
Pooper == PooperThrow
Worker(d) == \/ WorkerPoll(d) \/ WorkerCheck(d) \/ WorkerLock(d) \/ WorkerMemcpy(d)
             \/ WorkerUnlock(d) \/ WorkerTransfer(d) \/ WorkerDmaStarted(d)
             \/ WorkerSetValues(d)
Hal(d) == HalStart(d) \/ HalFinish(d)

Next ==
    \/ Voice
    \/ Show
    \/ Pooper
    \/ \E d \in DACs : Worker(d)
    \/ \E d \in DACs : Hal(d)

Spec == Init /\ [][Next]_vars

-----------------------------------------------------------------------------
(* The firmware after it has run for a while *)

\* Every worker has transferred the update it last saw and waits at the head of
\* its loop, every other thread is at the head of its loop, DAC 0 has the
\* asynchronous driver and DAC 1 has not, and every sequence value is seq.
Quiescent(seq) ==
    /\ input_buffer = [c \in Channels |-> 0]
    /\ output_buffer = [c \in Channels |-> 0]
    /\ inspiration = "free"
    /\ voice_pc = "lock"
    /\ show_pc = "lock" /\ show_dac = 0 /\ show_i = 0
    /\ pooper_dac = 0
    /\ async_me = [d \in DACs |-> d = 0]
    /\ muppet_lock = [d \in DACs |-> "free"]
    /\ update_sequence = [d \in DACs |-> seq]
    /\ update_in_progress = [d \in DACs |-> FALSE]
    /\ dma_operation_pending = [d \in DACs |-> FALSE]
    /\ worker_pc = [d \in DACs |-> "poll"]
    /\ last_processed_sequence = [d \in DACs |-> seq]
    /\ current_sequence = [d \in DACs |-> seq]
    /\ use_dma = async_me
    /\ my_personal_buffer_copy = [d \in DACs |-> [i \in Slots |-> 0]]
    /\ copy_i = [d \in DACs |-> 0]
    /\ snapshot_taken = [d \in DACs |-> FALSE]
    /\ transfer_issued = [d \in DACs |-> FALSE]
    /\ ldac = async_me
    /\ dac_values = [d \in DACs |-> [k \in 1..ChannelsPerDac |-> 0]]
    /\ operation_pending = [d \in DACs |-> FALSE]
    /\ operation_completed = [d \in DACs |-> FALSE]
    /\ operation_last_error = [d \in DACs |-> "SUCCESS"]
    /\ async_status = [d \in DACs |-> IF async_me[d] THEN "COMPLETED" ELSE "READY"]
    /\ current_callback = [d \in DACs |-> "none"]
    /\ initialized = async_me
    /\ hal_state = [d \in DACs |-> IF async_me[d] THEN "COMPLETED" ELSE "IDLE"]
    /\ hal_last_error = [d \in DACs |-> "SUCCESS"]
    /\ hal_callback = [d \in DACs |-> IF async_me[d] THEN "dma_completion_callback" ELSE "none"]
    /\ async_operation_pending = [d \in DACs |-> FALSE]
    /\ async_operation_complete = async_me
    /\ pending_transfer = [d \in DACs |-> IF async_me[d]
                                          THEN [k \in 1..ChannelsPerDac |-> 0] ELSE <<>>]
    /\ hal_pc = [d \in DACs |-> "idle"]
    /\ hal_txn = [d \in DACs |-> <<>>]
    /\ client_pc = [d \in DACs |-> "idle"]
    /\ client_result = [d \in DACs |-> "SUCCESS"]
    /\ transfers_made = [d \in DACs |-> 0]
    /\ callbacks_made = [d \in DACs |-> 0]
    /\ burst_messages = 0
    /\ burst_transfers = 0
    /\ fallback_mode = [d \in DACs |-> FALSE]
    /\ dma_error_count = [d \in DACs |-> 0]
    /\ InitHandler

\* the firmware reaches the quiescent state with the first sequence value
QuiescentAfterBoot == Quiescent(1)

\* the quiescent state when update_sequence has come to 0xFFFFFFFF
InitLongRunning == renumber = FALSE /\ Quiescent(-1)

WrapSpec == InitLongRunning /\ [][Next]_vars

\* C1: in every reachable state and for every DAC d, last_processed_sequence[d]
\* is less than or equal to update_sequence[d], as the uint32_t values compare
MonotonicPublication ==
    \A d \in DACs : ULeq(last_processed_sequence[d], update_sequence[d])

-----------------------------------------------------------------------------
(* Steps of the worker of DAC d *)

\* the check finds should_update and begins an update
BeginsUpdate(d) == worker_pc[d] = "check" /\ worker_pc'[d] = "lock"

\* the memcpy into my_personal_buffer_copy is completed
TakesSnapshot(d) == worker_pc[d] = "memcpy" /\ worker_pc'[d] = "unlock"

\* a transfer is started: initiate_async_update returns true, or set_values is called
StartsTransfer(d) ==
    \/ worker_pc[d] = "transfer" /\ worker_pc'[d] = "dma_started"
    \/ worker_pc[d] = "set_values" /\ worker_pc'[d] = "poll"

\* the completion poll finds the asynchronous operation completed
Completion(d) ==
    /\ worker_pc[d] = "poll" /\ worker_pc'[d] = "check"
    /\ dma_operation_pending[d] /\ async_me[d] /\ operation_completed[d]

\* C3: while update_in_progress[d] is true the worker of d begins no other update:
\* it takes no second snapshot and starts no second transfer before the flag is cleared
NoOverlappingUpdate ==
    [][\A d \in DACs : update_in_progress[d] =>
            /\ ~BeginsUpdate(d)
            /\ snapshot_taken[d] => ~TakesSnapshot(d)
            /\ transfer_issued[d] => ~StartsTransfer(d)]_vars

\* C3 witness: a transfer is in flight, update_sequence has moved on, and the worker
\* is at its check
CheckDuringUpdate ==
    \E d \in DACs : /\ worker_pc[d] = "check"
                    /\ update_in_progress[d] /\ snapshot_taken[d] /\ transfer_issued[d]
                    /\ update_sequence[d] # last_processed_sequence[d]
                    /\ update_sequence[d] # current_sequence[d]

\* C4: a step that changes last_processed_sequence[d] sets it to current_sequence[d],
\* the sequence value the worker observed when it began the update, on the
\* asynchronous path as well
CommitsObservedSequence ==
    [][\A d \in DACs : last_processed_sequence'[d] # last_processed_sequence[d] =>
            last_processed_sequence'[d] = current_sequence[d]]_vars

LdacBracketsTransfer ==
    \A d \in DACs : (worker_pc[d] \in {"poll", "check"} /\ ~update_in_progress[d]) => ~ldac[d]

\* C9: the dispatcher never waits for a worker: it is never inside
\* muppet_lock_[d].lock() waiting for the lock to become free
DispatcherNeverWaits == show_pc # "waiting"

-----------------------------------------------------------------------------
(* The firmware under fair scheduling.  TeensyThreads runs the threads round    *)
(* robin on a time slice, so a thread that can take a step takes it (weak       *)
(* fairness).  Threads::Mutex::lock retries until the mutex is free, and a      *)
(* mutex that is released again and again is obtained (strong fairness).        *)
(* Sequence numbers are renumbered, so that the threads run for ever.           *)

InitFair == renumber = TRUE /\ InitFirmware /\ async_me = [d \in DACs |-> d = 0]

WorkerRuns(d) == \/ WorkerPoll(d) \/ WorkerCheck(d) \/ WorkerMemcpy(d) \/ WorkerUnlock(d)
                 \/ WorkerTransfer(d) \/ WorkerDmaStarted(d) \/ WorkerSetValues(d)

Fairness ==
    /\ SF_vars(VoiceLock)
    /\ WF_vars(VoiceMidiRead(NoTraffic) \/ VoiceUnlock)
    /\ SF_vars(ShowLock)
    /\ SF_vars(attention_please)
    /\ WF_vars(ShowMemcpy \/ ShowThrow \/ ShowThanks \/ ShowUnlock)
    /\ WF_vars(Pooper)
    /\ \A d \in DACs : SF_vars(WorkerLock(d)) /\ WF_vars(WorkerRuns(d)) /\ WF_vars(Hal(d))

FairSpec == InitFair /\ [][Next]_vars /\ Fairness

\* what the ingress task needs of the scheduler: it and the dispatcher obtain their
\* locks when these are free again and again, the dispatcher and the workers run
LockFairness ==
    /\ SF_vars(VoiceLock)
    /\ SF_vars(attention_please)
    /\ WF_vars(ShowLock \/ ShowMemcpy \/ ShowThrow \/ ShowThanks \/ ShowUnlock)
    /\ \A d \in DACs : WF_vars(Worker(d))

LockFairSpec == InitFair /\ [][Next]_vars /\ LockFairness

\* C6: no lost wake-up: a publication the worker of d has observed and not yet
\* committed is eventually committed (last_processed_sequence[d] reaches it)
ObservedEventuallyCommitted ==
    \A d \in DACs : (last_processed_sequence[d] < current_sequence[d])
                        ~> (last_processed_sequence[d] >= current_sequence[d])

\* C10: whenever the ingress task requests `inspiration` it eventually holds it
IngressObtainsLock == (voice_pc = "lock") ~> (inspiration = "voice")

\* C10 witness: the ingress task requests the lock while the dispatcher holds it and
\* waits for a DAC lock that a worker holds, with a failed transfer on the other path
IngressRequestsDuringWork ==
    /\ voice_pc = "lock" /\ inspiration = "show" /\ show_pc = "waiting"
    /\ \E d \in DACs : muppet_lock[d] = "worker"
    /\ \E d \in DACs : update_in_progress[d] /\ hal_state[d] \in {"DMA_IN_PROGRESS", "ERROR_DMA_FAILURE"}

-----------------------------------------------------------------------------
(* The transfer engine under a client that calls its API directly.  The client  *)
(* numbers the transfers it hands over: transfer n carries the data <<n>>.      *)

\* the client calls transfer_async with its next transfer and a callback
ClientTransferAsync(d) ==
    /\ client_pc[d] = "idle"
    /\ transfers_made[d] < MaxTransfers
    /\ transfer_async(d, <<transfers_made[d] + 1>>, "client_callback")
    /\ client_result' = [client_result EXCEPT ![d] = TransferAsyncResult(d, TRUE)]
    /\ transfers_made' = [transfers_made EXCEPT ![d] =
                             IF TransferAsyncResult(d, TRUE) = "SUCCESS" THEN @ + 1 ELSE @]
    /\ UNCHANGED <<renumber, svcVars, probeVars, bendVars, delayVars, ringVars, errVars, burstVars, client_pc, callbacks_made, bufVars, inspiration, voiceVars,
                   showVars, pooper_dac, async_me, muppet_lock, seqVars, workerVars, dacVars,
                   mgrVars, drvVars, halThreadVars>>

\* the client calls abort_transfer
ClientAbort(d) ==
    /\ client_pc[d] = "idle"
    /\ abort_transfer(d)
    /\ client_result' = [client_result EXCEPT ![d] =
                            IF initialized[d] THEN "SUCCESS" ELSE "NOT_INITIALIZED"]
    /\ UNCHANGED <<renumber, svcVars, probeVars, bendVars, delayVars, ringVars, errVars, burstVars, client_pc, transfers_made, callbacks_made, bufVars, inspiration,
                   voiceVars, showVars, pooper_dac, async_me, muppet_lock, seqVars, workerVars,
                   dacVars, mgrVars, drvVars, halThreadVars>>

\* the client calls wait_for_completion and enters its loop
ClientWait(d) ==
    /\ client_pc[d] = "idle"
    /\ IF initialized[d]
       THEN client_pc' = [client_pc EXCEPT ![d] = "wait_for_completion"]
            /\ UNCHANGED client_result
       ELSE client_result' = [client_result EXCEPT ![d] = "NOT_INITIALIZED"]
            /\ UNCHANGED client_pc
    /\ UNCHANGED <<renumber, svcVars, probeVars, bendVars, delayVars, ringVars, errVars, burstVars, transfers_made, callbacks_made, bufVars, inspiration, voiceVars,
                   showVars, pooper_dac, async_me, muppet_lock, seqVars, workerVars, dacVars,
                   mgrVars, drvVars, halVars, halThreadVars>>

\* wait_for_completion finds the state no longer DMA_IN_PROGRESS and returns last_error
ClientWaitReturns(d) ==
    /\ client_pc[d] = "wait_for_completion"
    /\ hal_state[d] # "DMA_IN_PROGRESS"
    /\ client_result' = [client_result EXCEPT ![d] = hal_last_error[d]]
    /\ client_pc' = [client_pc EXCEPT ![d] = "idle"]
    /\ UNCHANGED <<renumber, svcVars, probeVars, bendVars, delayVars, ringVars, errVars, burstVars, transfers_made, callbacks_made, bufVars, inspiration, voiceVars,
                   showVars, pooper_dac, async_me, muppet_lock, seqVars, workerVars, dacVars,
                   mgrVars, drvVars, halVars, halThreadVars>>

\* wait_for_completion times out: ERROR_TIMEOUT, TIMEOUT, then abort_transfer(), which
\* finds the state no longer DMA_IN_PROGRESS and does nothing
ClientWaitTimesOut(d) ==
    /\ client_pc[d] = "wait_for_completion"
    /\ hal_state[d] = "DMA_IN_PROGRESS"
    /\ hal_state' = [hal_state EXCEPT ![d] = "ERROR_TIMEOUT"]
    /\ hal_last_error' = [hal_last_error EXCEPT ![d] = "TIMEOUT"]
    /\ client_result' = [client_result EXCEPT ![d] = "TIMEOUT"]
    /\ client_pc' = [client_pc EXCEPT ![d] = "idle"]
    /\ UNCHANGED <<renumber, svcVars, probeVars, bendVars, delayVars, ringVars, errVars, burstVars, transfers_made, callbacks_made, bufVars, inspiration, voiceVars,
                   showVars, pooper_dac, async_me, muppet_lock, seqVars, workerVars, dacVars,
                   mgrVars, drvVars, initialized, hal_callback, async_operation_pending,
                   async_operation_complete, pending_transfer, halThreadVars>>

Client(d) == \/ ClientTransferAsync(d) \/ ClientAbort(d) \/ ClientWait(d)
             \/ ClientWaitReturns(d) \/ ClientWaitTimesOut(d)

\* every engine initialized (dma_i2c_hal::init), no firmware thread running
InitHal ==
    /\ renumber = FALSE
    /\ InitMembers
    /\ input_buffer = [c \in Channels |-> 0]
    /\ async_me = [d \in DACs |-> TRUE]
    /\ initialized = [d \in DACs |-> TRUE]

NextHal == \E d \in DACs : Client(d) \/ Hal(d)

HalSpec == InitHal /\ [][NextHal]_vars

\* the transfers in flight on engine d: the accepted one that the engine holds as
\* DMA_IN_PROGRESS, and the one whose bus transaction is running
InFlight(d) ==
    (IF hal_state[d] = "DMA_IN_PROGRESS" THEN {pending_transfer[d]} ELSE {})
    \cup (IF hal_pc[d] = "perform_i2c_transfer" THEN {hal_txn[d]} ELSE {})

\* C2: at most one transfer is in flight on an engine: no transfer is accepted as
\* DMA_IN_PROGRESS while the bus transaction of another one is running
AtMostOneInFlight == \A d \in DACs : Cardinality(InFlight(d)) <= 1

\* the service thread of engine d has nothing to do: it is not inside a bus
\* transaction and finds no operation pending and not complete
EngineAtRest(d) ==
    hal_pc[d] = "idle" /\ ~(async_operation_pending[d] /\ ~async_operation_complete[d])

\* C15: the callback has never been invoked more often than transfer_async was
\* accepted, and when the engine is at rest it has been invoked once for every
\* accepted transfer_async
ExactlyOneCallback ==
    \A d \in DACs : /\ callbacks_made[d] <= transfers_made[d]
                     /\ EngineAtRest(d) => callbacks_made[d] = transfers_made[d]

\* abort_transfer is called on engine d while a transfer is in progress
AbortsInProgress(d) == ClientAbort(d) /\ hal_state[d] = "DMA_IN_PROGRESS"

\* the completion callback of engine d is invoked in this step; its arguments are
\* the state and the error the engine holds after the step
CallbackInvoked(d) == callbacks_made'[d] = callbacks_made[d] + 1

\* C16: abort_transfer on a transfer in progress leaves the engine in
\* ERROR_DMA_FAILURE with DMA_ERROR, and the pending callback is invoked with that
\* error: by the abort itself, or the service thread still has it to deliver
AbortInvokesCallback ==
    [][ \A d \in DACs : AbortsInProgress(d) =>
            /\ hal_state'[d] = "ERROR_DMA_FAILURE"
            /\ hal_last_error'[d] = "DMA_ERROR"
            /\ CallbackInvoked(d) \/ ~EngineAtRest(d)' ]_vars

\* C17: the callback of a transfer that timed out (the engine holds ERROR_TIMEOUT)
\* is invoked with state ERROR_TIMEOUT and error TIMEOUT
TimeoutInvokesCallback ==
    [][ \A d \in DACs : (hal_state[d] = "ERROR_TIMEOUT" /\ CallbackInvoked(d)) =>
            /\ hal_state'[d] = "ERROR_TIMEOUT"
            /\ hal_last_error'[d] = "TIMEOUT" ]_vars

-----------------------------------------------------------------------------
(* Clients whose completion callback may submit the next transfer from inside
   the callback: through the driver (set_values_async) where the DAC has one,
   to the engine (transfer_async) otherwise *)

\* the values a client passes with its n-th submission
ClientValues(n) == [k \in Slots |-> n * 4096]

\* a client submits from its own thread
ReentrantClientSubmit(d) ==
    /\ transfers_made[d] < MaxTransfers
    /\ LET n == transfers_made[d] + 1
           result == IF async_me[d] THEN SetValuesAsyncResult(d)
                                    ELSE TransferAsyncResult(d, TRUE)
       IN  /\ IF async_me[d]
              THEN set_values_async(d, ClientValues(n), "client_callback")
              ELSE transfer_async(d, <<n>>, "client_callback") /\ UNCHANGED drvVars
           /\ client_result' = [client_result EXCEPT ![d] = result]
           /\ transfers_made' = [transfers_made EXCEPT ![d] =
                                    IF result = "SUCCESS" THEN @ + 1 ELSE @]
    /\ UNCHANGED <<renumber, svcVars, probeVars, bendVars, delayVars, ringVars, errVars, burstVars, client_pc, callbacks_made, bufVars, inspiration,
                   voiceVars, showVars, pooper_dac, async_me, muppet_lock, seqVars,
                   workerVars, dacVars, mgrVars, halThreadVars>>

\* the bus transaction ends with result w: the service thread sets state and flags and
\* calls the engine's callback, which is the client's callback or dma_completion_callback;
\* dma_completion_callback returns at once when current_callback_ is null, else it sets
\* the status, calls the client's callback and then clears current_callback_.
\* The client's callback may submit the next transfer before it returns.
HalFinishReentrant(d) ==
    /\ hal_pc[d] = "perform_i2c_transfer"
    /\ \E w \in WireResults, resubmits \in BOOLEAN :
        LET result == WireError(w)
            state == IF result = "SUCCESS" THEN "COMPLETED" ELSE "ERROR_DMA_FAILURE"
            through_driver == hal_callback[d] = "dma_completion_callback"
            reached == IF through_driver THEN current_callback[d] # "none"
                                         ELSE hal_callback[d] # "none"
            \* the driver's status while the client's callback runs
            status == IF state = "COMPLETED" THEN "COMPLETED" ELSE "ERROR_OCCURRED"
            n == transfers_made[d] + 1
            submits == reached /\ resubmits /\ transfers_made[d] < MaxTransfers
            \* the busy checks of set_values_async and transfer_async, on the status and
            \* the state they find inside the callback
            accepted == /\ initialized[d]
                        /\ through_driver => status # "IN_PROGRESS"
                        /\ state # "DMA_IN_PROGRESS"
            started == submits /\ accepted
            payload == IF through_driver THEN DacWriteBuffer(ClientValues(n)) ELSE <<n>>
        IN  /\ hal_state' = [hal_state EXCEPT ![d] = IF started THEN "DMA_IN_PROGRESS" ELSE state]
            /\ hal_last_error' = [hal_last_error EXCEPT ![d] =
                                     IF started THEN "SUCCESS" ELSE result]
            /\ async_operation_complete' = [async_operation_complete EXCEPT ![d] = ~started]
            /\ async_operation_pending' = [async_operation_pending EXCEPT ![d] = started]
            /\ pending_transfer' = IF started THEN [pending_transfer EXCEPT ![d] = payload]
                                              ELSE pending_transfer
            /\ dac_values' = IF w = 0 THEN [dac_values EXCEPT ![d] = hal_txn[d]] ELSE dac_values
            /\ async_status' = IF through_driver /\ reached
                               THEN [async_status EXCEPT ![d] =
                                        IF started THEN "IN_PROGRESS" ELSE status]
                               ELSE async_status
            /\ current_callback' = IF through_driver /\ reached
                                   THEN [current_callback EXCEPT ![d] = "none"]
                                   ELSE current_callback
            /\ callbacks_made' = IF reached THEN [callbacks_made EXCEPT ![d] = @ + 1]
                                            ELSE callbacks_made
            /\ transfers_made' = IF started THEN [transfers_made EXCEPT ![d] = n]
                                            ELSE transfers_made
            /\ client_result' = IF submits
                                THEN [client_result EXCEPT ![d] =
                                         IF accepted THEN "SUCCESS" ELSE "BUSY"]
                                ELSE client_result
    /\ hal_pc' = [hal_pc EXCEPT ![d] = "idle"]
    /\ hal_txn' = [hal_txn EXCEPT ![d] = <<>>]
    /\ UNCHANGED <<renumber, svcVars, probeVars, bendVars, delayVars, ringVars, errVars, burstVars, client_pc, bufVars, inspiration, voiceVars, showVars,
                   pooper_dac, async_me, muppet_lock, seqVars, workerVars, ldac, mgrVars,
                   initialized, hal_callback>>

\* every engine initialized; each DAC with a driver on its engine or with the bare engine
InitReentrant ==
    /\ renumber = FALSE
    /\ InitMembers
    /\ input_buffer = [c \in Channels |-> 0]
    /\ async_me \in [DACs -> BOOLEAN]
    /\ initialized = [d \in DACs |-> TRUE]

NextReentrant == \E d \in DACs : ReentrantClientSubmit(d) \/ HalStart(d) \/ HalFinishReentrant(d)

ReentrantSpec == InitReentrant /\ [][NextReentrant]_vars

\* C18: a transfer submitted from inside a completion callback is accepted, executed
\* and completed with its own callback: once the engine is at rest every accepted
\* submission has had its callback, and a driver is not left IN_PROGRESS
ReentrantTransferCompletes ==
    \A d \in DACs : EngineAtRest(d) =>
        /\ callbacks_made[d] = transfers_made[d]
        /\ async_me[d] => async_status[d] # "IN_PROGRESS"

-----------------------------------------------------------------------------
(* The firmware under fair scheduling with values in the input buffer that stay: *)
(* the ingress task has stored the messages of StableTraffic before any other    *)
(* thread ran, and the MIDI source delivers nothing more.                        *)

RECURSIVE Stored(_, _)
\* the input buffer after set_channel_value for every message of msgs, in order
Stored(buf, msgs) ==
    IF msgs = <<>> THEN buf
    ELSE Stored(set_channel_value(buf, Head(msgs)[1], Head(msgs)[2]), Tail(msgs))

InitStable ==
    /\ renumber = TRUE
    /\ InitMembers
    /\ input_buffer = Stored([c \in Channels |-> 0], StableTraffic)
    /\ async_me = [d \in DACs |-> d = 0]
    /\ initialized = async_me

\* what the value needs of the scheduler: the ingress task gives the lock back, the
\* dispatcher, the workers and the service thread run and obtain their locks.  A
\* thread is at one place at a time and every step but a lock acquisition is enabled
\* by that place alone, so strong fairness of a thread is strong fairness of its
\* lock acquisitions and weak fairness of its other steps.
StableFairness ==
    /\ WF_vars(VoiceMidiRead(NoTraffic) \/ VoiceUnlock)
    /\ SF_vars(Show)
    /\ \A d \in DACs : SF_vars(Worker(d))
    /\ WF_vars(\E d \in DACs : Hal(d))

\* the threads that run while the values stay: party_pooper is in the sleep of
\* k_force_refresh_every_millis between two of its rounds, so that every publication
\* is one of go_muppets
NextStable ==
    \/ Voice
    \/ Show
    \/ \E d \in DACs : Worker(d)
    \/ \E d \in DACs : Hal(d)

StableSpec == InitStable /\ [][NextStable]_vars /\ StableFairness

\* a transfer that carries value v for channel i has been issued to the DAC that owns
\* channel i: accepted by the engine (pending_transfer), or written by set_values
Carried(i, v) ==
    LET d == i \div ChannelsPerDac
        k == (i % ChannelsPerDac) + 1
    IN  \/ pending_transfer[d] # <<>> /\ pending_transfer[d][k] = v
        \/ dac_values[d][k] = v

-----------------------------------------------------------------------------
(* The firmware with MIDI traffic: usbMIDI.read() delivers the pitch-bend        *)
(* messages of MidiTraffic, in any order and any number of times, to the two     *)
(* channels of DAC 0.                                                            *)

VoiceData == VoiceLock \/ VoiceMidiRead(MidiTraffic) \/ VoiceUnlock

NextData ==
    \/ VoiceData
    \/ Show
    \/ Pooper
    \/ \E d \in DACs : Worker(d)
    \/ \E d \in DACs : Hal(d)

InitData == renumber = TRUE /\ InitFirmware /\ async_me = [d \in DACs |-> d = 0]

DataSpec == InitData /\ [][NextData]_vars

\* the dispatcher is in the middle of its copy of d's slice
MidCopy(d) == show_pc = "memcpy" /\ show_dac = d /\ show_i > 0

\* C8: when the worker of d has finished its snapshot, the dispatcher is not in the
\* middle of a copy of d's slice and the snapshot equals the slice, channel by
\* channel: it is what one single dispatcher copy wrote (or the buffer as constructed)
SnapshotIsOneCopy ==
    \A d \in DACs : worker_pc[d] = "unlock" =>
        /\ ~MidCopy(d)
        /\ \A k \in Slots : my_personal_buffer_copy[d][k] = output_buffer[d * ChannelsPerDac + k]

\* C8 witness: a finished snapshot in which both channels that receive MIDI traffic
\* hold a value the dispatcher copied
SnapshotOfCopiedFrame ==
    \E d \in DACs : /\ worker_pc[d] = "unlock"
                     /\ my_personal_buffer_copy[d][0] # 0
                     /\ my_personal_buffer_copy[d][1] # 0

-----------------------------------------------------------------------------
(* The firmware with MIDI traffic and the code's own sequence numbers, up to     *)
(* MaxSeq publications for a DAC.                                                *)

InitExact == renumber = FALSE /\ InitFirmware /\ async_me = [d \in DACs |-> d = 0]

\* pitch-bend messages the MIDI source may deliver while sequence numbers are exact
ExactTraffic == { <<1, 4096>>, <<2, 4096>> }

VoiceExact == VoiceLock \/ VoiceMidiRead(ExactTraffic) \/ VoiceUnlock

NextExact ==
    \/ VoiceExact
    \/ Show
    \/ Pooper
    \/ \E d \in DACs : Worker(d)
    \/ \E d \in DACs : Hal(d)

ExactSpec == InitExact /\ [][NextExact]_vars

\* a step of the dispatcher
ShowStep == showVars' # showVars

\* the output slice of DAC d equals its input slice
SliceCopied(d) ==
    \A k \in Slots : output_buffer[d * ChannelsPerDac + k] = input_buffer[d * ChannelsPerDac + k]

\* the output slice of DAC d is left as it is
SliceUnchanged(d) ==
    \A k \in Slots : output_buffer'[d * ChannelsPerDac + k] = output_buffer[d * ChannelsPerDac + k]

\* C11: every step of the dispatcher leaves input_buffer alone and leaves the output
\* slice and the update_sequence of every DAC other than show_dac alone; the only
\* step that changes update_sequence[show_dac] is the throw, by exactly 1, and when
\* it is taken, and still when the lock is given back, output slice show_dac equals
\* input slice show_dac
DispatcherPassEffect ==
    [][ShowStep =>
          /\ input_buffer' = input_buffer
          /\ \A d \in DACs : d # show_dac =>
                 SliceUnchanged(d) /\ update_sequence'[d] = update_sequence[d]
          /\ IF show_pc = "throw"
             THEN /\ update_sequence'[show_dac] = update_sequence[show_dac] + 1
                  /\ SliceCopied(show_dac) /\ SliceUnchanged(show_dac)
             ELSE update_sequence'[show_dac] = update_sequence[show_dac]
          /\ show_pc = "thanks" => SliceCopied(show_dac) /\ SliceUnchanged(show_dac)
       ]_vars

\* C11 witness: the dispatcher gives back the lock of DAC 0 after a pass that copied
\* MIDI values into both channels of the slice and published it
PassCopiedTraffic ==
    /\ show_pc = "thanks" /\ show_dac = 0
    /\ output_buffer[0] # 0 /\ output_buffer[1] # 0
    /\ update_sequence[0] >= 2

\* C12: the watchdog's throw for the DAC whose turn it is can be taken whatever the
\* state of that DAC's lock and update (as long as the model's counter has room), it
\* increments that DAC's update_sequence by exactly 1 and no other, and the turn goes
\* round all DACs
WatchdogUnconditional ==
    /\ [](update_sequence[pooper_dac] < MaxSeq => ENABLED PooperThrow)
    /\ [][pooper_dac' # pooper_dac =>
            /\ update_sequence'[pooper_dac] = update_sequence[pooper_dac] + 1
            /\ \A d \in DACs : d # pooper_dac => update_sequence'[d] = update_sequence[d]
            /\ pooper_dac' = (pooper_dac + 1) % k_dac_count]_vars

\* C12 witness: in the middle of a firing, DAC 0 thrown, the watchdog is about to
\* throw DAC 1 while DAC 1's lock is held and DAC 1 has an update in progress
WatchdogMeetsBusyDac ==
    /\ pooper_dac = 1
    /\ muppet_lock[1] # "free" /\ update_in_progress[1]
    /\ update_sequence[1] < MaxSeq

-----------------------------------------------------------------------------
(* The firmware during a burst of pitch-bend messages on one channel.  The burst *)
(* is short (10 ms) and the watchdog sleeps k_force_refresh_every_millis (100 ms) *)
(* between two firings: it does not fire here, which leaves out publications and *)
(* adds none.                                                                    *)

VoiceBurst == VoiceLock \/ VoiceBurstRead \/ VoiceUnlock

NextBurst ==
    \/ VoiceBurst
    \/ Show
    \/ \E d \in DACs : Worker(d)
    \/ \E d \in DACs : Hal(d)

InitBurst == renumber = TRUE /\ InitFirmware /\ async_me = [d \in DACs |-> d = 0]

BurstSpec == InitBurst /\ [][NextBurst]_vars

\* C13: coalescing: between the first and the last message of a burst on one channel
\* the worker issues at most 2 transfers to the DAC of that channel
BurstCoalesced == burst_transfers <= 2

-----------------------------------------------------------------------------
(* dma_error_handler: the per-DAC fallback flag, set and cleared through the
   handler's public functions, with the firmware running *)

\* enable_sync_fallback( dac_index )
enable_sync_fallback(d) ==
    /\ d < 4
    /\ ~fallback_mode[d]
    /\ fallback_mode' = [fallback_mode EXCEPT ![d] = TRUE]
    /\ success_streak' = [success_streak EXCEPT ![d] = 0]
    /\ UNCHANGED <<consecutive_errors, success_counter, error_log, peripheral_reset_count,
                   handler_pc, failure_streak, operation_active>>
    /\ UNCHANGED <<renumber, svcVars, probeVars, bendVars, delayVars, ringVars, dma_error_count, burstVars, clientVars, bufVars, inspiration,
                   voiceVars, showVars, pooper_dac, async_me, muppet_lock, seqVars,
                   workerVars, dacVars, mgrVars, drvVars, halVars, halThreadVars>>

\* disable_sync_fallback( dac_index )
disable_sync_fallback(d) ==
    /\ d < 4
    /\ fallback_mode[d]
    /\ fallback_mode' = [fallback_mode EXCEPT ![d] = FALSE]
    /\ UNCHANGED <<renumber, svcVars, probeVars, bendVars, delayVars, ringVars, dma_error_count, handlerVars, burstVars, clientVars, bufVars, inspiration,
                   voiceVars, showVars, pooper_dac, async_me, muppet_lock, seqVars,
                   workerVars, dacVars, mgrVars, drvVars, halVars, halThreadVars>>

ErrorHandler == \E d \in DACs : enable_sync_fallback(d) \/ disable_sync_fallback(d)

NextFallback == Next \/ ErrorHandler

FallbackSpec == InitFair /\ [][NextFallback]_vars

\* C19: while fallback_mode[d] is set the worker of d submits no asynchronous
\* transfer: a worker that begins an update with fallback_mode[d] set decides for the
\* synchronous entry point (use_dma false)
FallbackBypassesAsync ==
    [][ \A d \in DACs : (fallback_mode[d] /\ BeginsUpdate(d)) => ~use_dma'[d] ]_vars

-----------------------------------------------------------------------------
(* A single update: the one outstanding after boot, with no further publication;
   the workers and the engines run, and the failed operations are counted *)

WorkerCounting(d) ==
    \/ WorkerPollCounting(d) \/ WorkerCheck(d) \/ WorkerLock(d) \/ WorkerMemcpy(d)
    \/ WorkerUnlock(d) \/ WorkerTransfer(d) \/ WorkerDmaStarted(d) \/ WorkerSetValues(d)

NextRetry == \E d \in DACs : WorkerCounting(d) \/ Hal(d)

InitRetry == renumber = FALSE /\ InitFirmware /\ async_me = [d \in DACs |-> d = 0]

RetrySpec == InitRetry /\ [][NextRetry]_vars

\* C20: for a single update at most max_retry_attempts + 1 transfer attempts are made
\* before the worker is in sync fallback: an asynchronous attempt in flight has at most
\* max_retry_attempts failed ones before it
RetryBound ==
    \A d \in DACs : (dma_operation_pending[d] /\ ~fallback_mode[d]) =>
                         dma_error_count[d] <= max_retry_attempts

-----------------------------------------------------------------------------
(* dma_error_handler: severity, recovery strategy, error log, recovery *)

ErrorCodes == { "SUCCESS", "BUSY", "TIMEOUT", "NAK_RECEIVED", "ARBITRATION_LOST",
                "DMA_ERROR", "INVALID_PARAMETER", "NOT_INITIALIZED" }
RetryCounts == 0 .. MaxRetryCount

\* assess_error_severity( error_code, retry_count )
assess_error_severity(error_code, retry_count) ==
    CASE error_code = "SUCCESS" -> "INFO"
      [] error_code = "BUSY" -> IF retry_count > 2 THEN "WARNING" ELSE "INFO"
      [] error_code = "TIMEOUT" -> IF retry_count > 3 THEN "ERROR" ELSE "WARNING"
      [] error_code = "NAK_RECEIVED" -> IF retry_count > 2 THEN "ERROR" ELSE "WARNING"
      [] error_code = "ARBITRATION_LOST" -> "WARNING"
      [] error_code = "DMA_ERROR" -> IF retry_count > 1 THEN "CRITICAL" ELSE "ERROR"
      [] error_code = "INVALID_PARAMETER" -> "CRITICAL"
      [] error_code = "NOT_INITIALIZED" -> "FATAL"
      [] OTHER -> "ERROR"

\* a strategy that gives up NAK_RECEIVED after two retries
determine_recovery_strategy_nak2(error_code, retry_count, consecutive) ==
    CASE error_code = "BUSY" ->
            IF retry_count < 2 THEN "RETRY_WITH_DELAY" ELSE "FALLBACK_TO_SYNC"
      [] error_code = "TIMEOUT" ->
            IF retry_count < max_retry_attempts THEN "RETRY_WITH_DELAY"
                                                ELSE "FALLBACK_TO_SYNC"
      [] error_code = "NAK_RECEIVED" ->
            IF retry_count < 2 THEN "RETRY_IMMEDIATE" ELSE "FALLBACK_TO_SYNC"
      [] error_code = "ARBITRATION_LOST" -> "RETRY_WITH_DELAY"
      [] error_code = "DMA_ERROR" ->
            IF retry_count = 0 THEN "RETRY_IMMEDIATE"
            ELSE IF consecutive > 5 THEN "RESET_PERIPHERAL"
            ELSE "FALLBACK_TO_SYNC"
      [] error_code \in { "NOT_INITIALIZED", "INVALID_PARAMETER" } -> "SYSTEM_RESTART"
      [] OTHER -> "FALLBACK_TO_SYNC"

\* determine_recovery_strategy( error_event ), with consecutive the value of
\* recovery_state_.consecutive_errors[ error_event.dac_index ] it reads
determine_recovery_strategy(error_code, retry_count, consecutive) ==
    CASE error_code = "BUSY" ->
            IF retry_count < 2 THEN "RETRY_WITH_DELAY" ELSE "FALLBACK_TO_SYNC"
      [] error_code = "TIMEOUT" ->
            IF retry_count < max_retry_attempts THEN "RETRY_WITH_DELAY"
                                                ELSE "FALLBACK_TO_SYNC"
      [] error_code = "NAK_RECEIVED" ->
            IF retry_count < 3 THEN "RETRY_IMMEDIATE" ELSE "FALLBACK_TO_SYNC"
      [] error_code = "ARBITRATION_LOST" -> "RETRY_WITH_DELAY"
      [] error_code = "DMA_ERROR" ->
            IF retry_count = 0 THEN "RETRY_IMMEDIATE"
            ELSE IF consecutive > 5 THEN "RESET_PERIPHERAL"
            ELSE "FALLBACK_TO_SYNC"
      [] error_code \in { "NOT_INITIALIZED", "INVALID_PARAMETER" } -> "SYSTEM_RESTART"
      [] OTHER -> "FALLBACK_TO_SYNC"

\* log_error_event: the ring of MAX_ERROR_LOG_ENTRIES events
log_error_event(log, event) ==
    IF Len(log) < MAX_ERROR_LOG_ENTRIES THEN Append(log, event)
                                        ELSE Append(Tail(log), event)

\* get_latest_error
get_latest_error == error_log[Len(error_log)]

\* should_reset_peripheral( dac_index )
should_reset_peripheral(d) == d < 4 /\ consecutive_errors[d] > 10

\* retry_operation( dac_index, retry_count ): what it returns
retry_operation(retry_count) == ~(retry_count >= max_retry_attempts)

\* everything but the error handler's state
firmwareVars == <<renumber, dma_error_count, burstVars, clientVars, bufVars, inspiration,
                  voiceVars, showVars, pooper_dac, async_me, muppet_lock, seqVars,
                  workerVars, dacVars, mgrVars, drvVars, halVars, halThreadVars>>

\* handle_error( error_code, dac_index, retry_count ): the event is assessed and
\* logged, then consecutive_errors is incremented; the caller holds the event
handle_error(error_code, dac_index, retry_count) ==
    LET d == IF dac_index >= 4 THEN 0 ELSE dac_index
        event == [ error_code |-> error_code, dac_index |-> d,
                   retry_count |-> retry_count,
                   severity |-> assess_error_severity(error_code, retry_count),
                   recovery |-> determine_recovery_strategy(error_code, retry_count,
                                                            consecutive_errors[d]) ]
    IN  /\ handler_pc = "idle"
        /\ failure_streak[d] < MaxConsecutiveErrors
        /\ error_log' = log_error_event(error_log, event)
        /\ consecutive_errors' = [consecutive_errors EXCEPT ![d] = (@ + 1) % 256]
        /\ failure_streak' = [failure_streak EXCEPT ![d] = @ + 1]
        /\ success_streak' = [success_streak EXCEPT ![d] = 0]
        /\ handler_pc' = "recover"
        /\ UNCHANGED <<fallback_mode, success_counter, peripheral_reset_count,
                       operation_active, ringVars, delayVars, bendVars, probeVars, svcVars, firmwareVars>>

\* what execute_recovery( error_event ) does to the handler's state; the configuration
\* has enable_sync_fallback and enable_peripheral_reset set
recover(ev) ==
    LET d == ev.dac_index
    IN  CASE ev.recovery \in { "RETRY_IMMEDIATE", "RETRY_WITH_DELAY" } ->
                /\ consecutive_errors' =
                      IF retry_operation((ev.retry_count + 1) % 256)
                      THEN [consecutive_errors EXCEPT ![d] = 0]
                      ELSE consecutive_errors
                /\ UNCHANGED <<fallback_mode, peripheral_reset_count, failure_streak>>
          [] ev.recovery = "FALLBACK_TO_SYNC" ->
                /\ fallback_mode' = IF d < 4 THEN [fallback_mode EXCEPT ![d] = TRUE]
                                             ELSE fallback_mode
                /\ UNCHANGED <<consecutive_errors, peripheral_reset_count, failure_streak>>
          [] ev.recovery = "RESET_PERIPHERAL" ->
                IF should_reset_peripheral(d)
                THEN /\ consecutive_errors' = [consecutive_errors EXCEPT ![d] = 0]
                     /\ failure_streak' = [failure_streak EXCEPT ![d] = 0]
                     /\ peripheral_reset_count' =
                           IF peripheral_reset_count < MaxResets
                           THEN peripheral_reset_count + 1 ELSE peripheral_reset_count
                     /\ UNCHANGED fallback_mode
                ELSE UNCHANGED <<consecutive_errors, fallback_mode, peripheral_reset_count,
                                 failure_streak>>
          [] OTHER ->
                UNCHANGED <<consecutive_errors, fallback_mode, peripheral_reset_count,
                            failure_streak>>

\* the caller passes the event it got from handle_error to execute_recovery
execute_recovery ==
    /\ handler_pc = "recover"
    /\ recover(get_latest_error)
    /\ handler_pc' = "idle"
    /\ UNCHANGED <<success_counter, error_log, success_streak, operation_active,
                   ringVars, delayVars, bendVars, probeVars, svcVars, firmwareVars>>

\* notify_success( dac_index )
notify_success(d) ==
    /\ handler_pc = "idle"
    /\ d < 4
    /\ consecutive_errors' = [consecutive_errors EXCEPT ![d] = 0]
    /\ IF fallback_mode[d]
       THEN IF success_counter[d] + 1 > 10
            THEN /\ fallback_mode' = [fallback_mode EXCEPT ![d] = FALSE]
                 /\ success_counter' = [success_counter EXCEPT ![d] = 0]
            ELSE /\ success_counter' = [success_counter EXCEPT ![d] = @ + 1]
                 /\ UNCHANGED fallback_mode
       ELSE UNCHANGED <<fallback_mode, success_counter>>
    /\ success_streak' = [success_streak EXCEPT ![d] = IF @ < MaxStreak THEN @ + 1 ELSE @]
    /\ failure_streak' = [failure_streak EXCEPT ![d] = 0]
    /\ UNCHANGED <<error_log, peripheral_reset_count, handler_pc, operation_active,
                   ringVars, delayVars, bendVars, probeVars, svcVars, firmwareVars>>

\* reset_error_statistics: statistics, recovery_state_ and the log are cleared; the
\* static success_counter of notify_success is not
reset_error_statistics ==
    /\ handler_pc = "idle"
    /\ consecutive_errors' = [d \in DACs |-> 0]
    /\ fallback_mode' = [d \in DACs |-> FALSE]
    /\ peripheral_reset_count' = 0
    /\ error_log' = <<>>
    /\ failure_streak' = [d \in DACs |-> 0]
    /\ log_count_' = 0
    /\ log_write_index_' = 0
    /\ events_since_reset' = 0
    /\ UNCHANGED <<success_counter, success_streak, handler_pc, operation_active,
                   error_log_, events_total, delayVars, bendVars, probeVars, svcVars, firmwareVars>>

-----------------------------------------------------------------------------
(* Leaving the fallback: the handler's functions that touch fallback_mode, called
   in any order while no failure is being handled *)

NextSuccess ==
    \/ \E d \in DACs : \/ enable_sync_fallback(d)
                        \/ disable_sync_fallback(d)
                        \/ notify_success(d)
    \/ reset_error_statistics

SuccessSpec == InitFair /\ [][NextSuccess]_vars

\* C21: fallback_mode[d] changes from true to false only when at least 10 successes
\* in a row have been notified for d since the fallback was entered
FallbackClearedAfterK ==
    [][ \A d \in DACs : (fallback_mode[d] /\ ~fallback_mode'[d]) =>
                             success_streak'[d] >= 10 ]_vars

\* C22: with fallback_mode[d] set, the notify_success(d) that brings the count of
\* successes to 10 clears fallback_mode[d] and zeroes the count
TenthSuccessClears ==
    [][ \A d \in DACs : (fallback_mode[d] /\ success_counter[d] = 9 /\ notify_success(d)) =>
                             (~fallback_mode'[d] /\ success_counter'[d] = 0) ]_vars

-----------------------------------------------------------------------------
(* The error policy: a caller reports failures of any kind with any retry count
   and executes the recovery it is given *)

NextPolicy ==
    \/ \E error_code \in ErrorCodes, d \in DACs, retry_count \in RetryCounts :
          Len(error_log) < PolicyCalls /\ handle_error(error_code, d, retry_count)
    \/ execute_recovery
    \/ reset_error_statistics

PolicySpec == InitFair /\ [][NextPolicy]_vars

\* the events in the error log
Logged == { error_log[i] : i \in 1 .. Len(error_log) }

\* C23: every failure handled for d adds exactly 1 to consecutive_errors[d] over
\* handle_error and the recovery step: when no recovery is outstanding,
\* consecutive_errors[d] is the number of failures of d since its last success
FailuresCountedOnce ==
    handler_pc = "idle" => \A d \in DACs : consecutive_errors[d] = failure_streak[d]

\* C24: the recovery action of every logged event is the one the policy names for
\* its error kind and retry count
RecoveryByKind ==
    \A e \in Logged :
        /\ e.error_code = "BUSY" =>
              e.recovery = IF e.retry_count < 2 THEN "RETRY_WITH_DELAY"
                                                ELSE "FALLBACK_TO_SYNC"
        /\ e.error_code = "TIMEOUT" =>
              e.recovery = IF e.retry_count < max_retry_attempts THEN "RETRY_WITH_DELAY"
                                                                 ELSE "FALLBACK_TO_SYNC"
        /\ e.error_code = "NAK_RECEIVED" =>
              e.recovery = IF e.retry_count < 3 THEN "RETRY_IMMEDIATE"
                                                ELSE "FALLBACK_TO_SYNC"
        /\ e.error_code = "ARBITRATION_LOST" => e.recovery = "RETRY_WITH_DELAY"
        /\ e.error_code \in { "NOT_INITIALIZED", "INVALID_PARAMETER" } =>
              e.recovery = "SYSTEM_RESTART"

\* C24 witness: the log holds a NAK that was retried at retry count 2 and a timeout
\* that fell back to the synchronous path at retry count max_retry_attempts
RecoveryChosen ==
    /\ Len(error_log) = PolicyCalls
    /\ \E e \in Logged : /\ e.error_code = "NAK_RECEIVED" /\ e.retry_count = 2
                          /\ e.recovery = "RETRY_IMMEDIATE"
    /\ \E e \in Logged : /\ e.error_code = "TIMEOUT" /\ e.retry_count = max_retry_attempts
                          /\ e.recovery = "FALLBACK_TO_SYNC"

\* C26: the severity of every logged event is the one named for its error kind and
\* retry count
SeverityByKind ==
    \A e \in Logged :
        /\ e.error_code \in { "NOT_INITIALIZED", "INVALID_PARAMETER" } =>
              e.severity = "FATAL"
        /\ e.error_code = "DMA_ERROR" =>
              e.severity = IF e.retry_count >= 2 THEN "CRITICAL" ELSE "ERROR"
        /\ e.error_code \in { "TIMEOUT", "NAK_RECEIVED" } =>
              e.severity = IF e.retry_count >= 3 THEN "ERROR" ELSE "WARNING"
        /\ e.error_code \in { "ARBITRATION_LOST", "BUSY" } => e.severity = "WARNING"

(* Repeated DMA errors: a caller reports DMA errors of the DACs, the first attempt
   of a transfer with retry count 0 and a later one with retry count 1, and
   executes each recovery *)
NextBusError ==
    \/ \E d \in DACs, retry_count \in 0 .. 1 :
          /\ Len(error_log) < BusErrorCalls
          /\ handle_error("DMA_ERROR", d, retry_count)
    \/ execute_recovery

BusErrorSpec == InitFair /\ [][NextBusError]_vars

\* C25: a step that logs a DMA error chooses RETRY_IMMEDIATE at retry count 0, and at
\* a later attempt RESET_PERIPHERAL if consecutive_errors of the DAC, the current
\* failure included, exceeds 5, and FALLBACK_TO_SYNC otherwise
BusErrorRecovery ==
    [][ Len(error_log') = Len(error_log) + 1 =>
          LET e == error_log'[Len(error_log')]
          IN  e.error_code = "DMA_ERROR" =>
                e.recovery = IF e.retry_count = 0 THEN "RETRY_IMMEDIATE"
                             ELSE IF consecutive_errors'[e.dac_index] > 5
                                  THEN "RESET_PERIPHERAL"
                                  ELSE "FALLBACK_TO_SYNC" ]_vars

(* Repeated NAKs: each attempt of a DAC's transfer is answered with a NAK, the
   caller reports it with the number of attempts that failed before it and
   executes the recovery *)
FailedAttempts(d) ==
    Cardinality({ i \in 1 .. Len(error_log) : error_log[i].dac_index = d })

NextNak ==
    \/ \E d \in DACs :
          /\ FailedAttempts(d) < NakFailures
          /\ handle_error("NAK_RECEIVED", d, FailedAttempts(d))
    \/ execute_recovery

NakSpec == InitFair /\ [][NextNak]_vars

\* C27: once three NAKs of DAC 1 in a row have been handled, the log holds exactly
\* three NAK entries of DAC 1, each retried immediately, and DAC 1 is in fallback
\* mode, so that the transfer that follows takes the synchronous path
ThreeNaksFallBack ==
    (handler_pc = "idle" /\ FailedAttempts(1) = 3) =>
        /\ \A e \in Logged :
              e.dac_index = 1 => (e.error_code = "NAK_RECEIVED"
                                  /\ e.recovery = "RETRY_IMMEDIATE")
        /\ fallback_mode[1]

(* Errors that accumulate: a caller reports, for one DAC, lost arbitrations at
   retry count 2 (retried with delay, and the retry is refused) and DMA errors at
   retry count 1, and executes each recovery *)
NextReset ==
    \/ \E d \in DACs, error_code \in { "ARBITRATION_LOST", "DMA_ERROR" } :
          /\ Len(error_log) < ResetCalls
          /\ \A e \in Logged : e.dac_index = d
          /\ handle_error(error_code, d, IF error_code = "DMA_ERROR" THEN 1 ELSE 2)
    \/ execute_recovery

ResetSpec == InitFair /\ [][NextReset]_vars

\* the recovery step about to run resets the peripheral of DAC d
ResetsPeripheral(d) ==
    /\ handler_pc = "recover"
    /\ get_latest_error.dac_index = d
    /\ get_latest_error.recovery = "RESET_PERIPHERAL"
    /\ should_reset_peripheral(d)

\* C28: a peripheral reset of DAC d leaves consecutive_errors[d] = 0 and DAC d in
\* fallback mode
ResetLeavesFallback ==
    [][ \A d \in DACs :
          (ResetsPeripheral(d) /\ execute_recovery) =>
              (consecutive_errors'[d] = 0 /\ fallback_mode'[d]) ]_vars

(* The timeout watchdog while every transfer of DAC 0 stalls: operations of both
   DACs are tracked, the ones of DAC 1 complete in time and the ones of DAC 0 never
   complete, so that only the tracker of DAC 0 is found older than
   timeout_threshold_ms *)

\* start_operation_tracking( dac_index )
start_operation_tracking(d) ==
    /\ d < 4
    /\ operation_active' = [operation_active EXCEPT ![d] = TRUE]
    /\ UNCHANGED <<fallback_mode, consecutive_errors, success_counter, error_log,
                   peripheral_reset_count, handler_pc, success_streak, failure_streak,
                   ringVars, delayVars, bendVars, probeVars, svcVars, firmwareVars>>

\* stop_operation_tracking( dac_index )
stop_operation_tracking(d) ==
    /\ d < 4
    /\ operation_active[d]
    /\ operation_active' = [operation_active EXCEPT ![d] = FALSE]
    /\ UNCHANGED <<fallback_mode, consecutive_errors, success_counter, error_log,
                   peripheral_reset_count, handler_pc, success_streak, failure_streak,
                   ringVars, delayVars, bendVars, probeVars, svcVars, firmwareVars>>

\* check_timeouts with the tracker of DAC d timed out: the timeout is reported with
\* retry count 0, the tracker is stopped and the recovery is executed
check_timeouts(d) ==
    LET strategy == determine_recovery_strategy("TIMEOUT", 0, consecutive_errors[d])
        event == [ error_code |-> "TIMEOUT", dac_index |-> d, retry_count |-> 0,
                   severity |-> assess_error_severity("TIMEOUT", 0),
                   recovery |-> strategy ]
        counted == [consecutive_errors EXCEPT ![d] = (@ + 1) % 256]
    IN  /\ handler_pc = "idle"
        /\ operation_active[d]
        /\ error_log' = log_error_event(error_log, event)
        /\ failure_streak' =
              [failure_streak EXCEPT ![d] = IF @ < MaxConsecutiveErrors THEN @ + 1 ELSE @]
        /\ success_streak' = [success_streak EXCEPT ![d] = 0]
        /\ operation_active' = [operation_active EXCEPT ![d] = FALSE]
        /\ CASE strategy \in { "RETRY_IMMEDIATE", "RETRY_WITH_DELAY" } ->
                    /\ consecutive_errors' = IF retry_operation(1)
                                             THEN [counted EXCEPT ![d] = 0]
                                             ELSE counted
                    /\ UNCHANGED <<fallback_mode, peripheral_reset_count>>
              [] strategy = "FALLBACK_TO_SYNC" ->
                    /\ consecutive_errors' = counted
                    /\ fallback_mode' = [fallback_mode EXCEPT ![d] = TRUE]
                    /\ UNCHANGED peripheral_reset_count
              [] strategy = "RESET_PERIPHERAL" ->
                    IF counted[d] > 10
                    THEN /\ consecutive_errors' = [counted EXCEPT ![d] = 0]
                         /\ peripheral_reset_count' =
                               IF peripheral_reset_count < MaxResets
                               THEN peripheral_reset_count + 1
                               ELSE peripheral_reset_count
                         /\ UNCHANGED fallback_mode
                    ELSE /\ consecutive_errors' = counted
                         /\ UNCHANGED <<fallback_mode, peripheral_reset_count>>
              [] OTHER ->
                    /\ consecutive_errors' = counted
                    /\ UNCHANGED <<fallback_mode, peripheral_reset_count>>
        /\ UNCHANGED <<success_counter, handler_pc, ringVars, delayVars, bendVars, probeVars, svcVars, firmwareVars>>

NextStall ==
    \/ \E d \in DACs : start_operation_tracking(d)
    \/ stop_operation_tracking(1)
    \/ check_timeouts(0)

\* transfers of DAC 0 keep being started, and the watchdog thread keeps running
StallFairness ==
    /\ WF_vars(start_operation_tracking(0))
    /\ WF_vars(check_timeouts(0))

StallSpec == InitFair /\ [][NextStall]_vars /\ StallFairness

\* C29: while every transfer of DAC 0 stalls, a peripheral reset is eventually
\* performed
StallLeadsToReset == <>(peripheral_reset_count > 0)

-----------------------------------------------------------------------------
(* The firmware around a peripheral reset of DAC 0.  The bus of DAC 0 is faulty  *)
(* until the reset and healthy after it: every bus transaction fails before and  *)
(* succeeds after.  The error handler has been told of ten lost arbitrations of  *)
(* DAC 0 whose retries were refused; the DMA error that follows resets the       *)
(* peripheral.  The MIDI source delivers nothing.                                *)

\* the event handle_error logs for a lost arbitration of DAC 0 at retry count 2
LostArbitration ==
    [ error_code |-> "ARBITRATION_LOST", dac_index |-> 0, retry_count |-> 2,
      severity |-> assess_error_severity("ARBITRATION_LOST", 2),
      recovery |-> determine_recovery_strategy("ARBITRATION_LOST", 2, 0) ]

InitRecovery ==
    /\ renumber = TRUE
    /\ InitCore
    /\ input_buffer = [c \in Channels |-> 0]
    /\ async_me = [d \in DACs |-> d = 0]
    /\ initialized = async_me
    /\ InitRing
    /\ InitDelay
    /\ InitBend
    /\ InitProbe
    /\ InitSvc
    /\ consecutive_errors = [d \in DACs |-> IF d = 0 THEN 10 ELSE 0]
    /\ failure_streak = [d \in DACs |-> IF d = 0 THEN 10 ELSE 0]
    /\ error_log = [i \in 1 .. 10 |-> LostArbitration]
    /\ success_counter = [d \in DACs |-> 0]
    /\ success_streak = [d \in DACs |-> 0]
    /\ peripheral_reset_count = 0
    /\ handler_pc = "idle"
    /\ operation_active = [d \in DACs |-> FALSE]

\* the bus transaction of DAC d ends, with an error before the reset and with
\* success after it
HalFinishAroundReset(d) ==
    /\ HalFinish(d)
    /\ hal_state'[d] = "COMPLETED" <=> peripheral_reset_count > 0

NextRecovery ==
    \/ Voice
    \/ Show
    \/ Pooper
    \/ \E d \in DACs : Worker(d)
    \/ \E d \in DACs : HalStart(d)
    \/ \E d \in DACs : HalFinishAroundReset(d)
    \/ peripheral_reset_count = 0 /\ handle_error("DMA_ERROR", 0, 1)
    \/ execute_recovery

\* what the transfer needs of the scheduler: the watchdog, the worker of DAC 0 and
\* its service thread run, the worker obtains its lock, and the dispatcher gives
\* the lock back
RecoveryFairness ==
    /\ WF_vars(Pooper)
    /\ WF_vars(ShowMemcpy \/ ShowThrow \/ ShowThanks \/ ShowUnlock)
    /\ SF_vars(WorkerLock(0))
    /\ WF_vars(WorkerRuns(0))
    /\ WF_vars(HalStart(0) \/ HalFinishAroundReset(0))

RecoverySpec == InitRecovery /\ [][NextRecovery]_vars /\ RecoveryFairness

-----------------------------------------------------------------------------
(* The error log as the code keeps it: the array error_log_, written at          *)
(* log_write_index_, with log_count_ entries.  The caller numbers the events it  *)
(* reports (context_data), and the log is cleared at most once.                  *)

\* a write index that wraps one slot early
next_log_index_short(i) == (i + 1) % (MAX_ERROR_LOG_ENTRIES - 1)

\* ( log_write_index_ + 1 ) % MAX_ERROR_LOG_ENTRIES
next_log_index(i) == (i + 1) % MAX_ERROR_LOG_ENTRIES

\* log_error_event( event ), on the array
LogErrorEvent(event) ==
    /\ error_log_' = (log_write_index_ :> event) @@ error_log_
    /\ log_write_index_' = next_log_index(log_write_index_)
    /\ log_count_' = IF log_count_ < MAX_ERROR_LOG_ENTRIES THEN log_count_ + 1
                                                            ELSE log_count_

\* the event handle_error builds for a timeout of DAC d that the caller numbers n
NumberedEvent(d, n) ==
    [ error_code |-> "TIMEOUT", severity |-> assess_error_severity("TIMEOUT", 0),
      recovery |-> determine_recovery_strategy("TIMEOUT", 0, 0),
      dac_index |-> d, retry_count |-> 0, context_data |-> n ]

\* an error event is logged
LogNumbered ==
    /\ handler_pc = "idle"
    /\ events_total < MaxLogged
    /\ LogErrorEvent(NumberedEvent(0, events_total + 1))
    /\ events_total' = events_total + 1
    /\ events_since_reset' = events_since_reset + 1
    /\ UNCHANGED <<fallback_mode, handlerVars, delayVars, bendVars, probeVars, svcVars, firmwareVars>>

NextRing ==
    \/ LogNumbered
    \/ /\ events_since_reset > 0
       /\ events_since_reset = events_total
       /\ reset_error_statistics

RingSpec == InitFair /\ [][NextRing]_vars

\* error_event_t(): the value of a slot nothing was logged to
EmptyEvent ==
    [ error_code |-> "SUCCESS", severity |-> "INFO", recovery |-> "NONE",
      dac_index |-> 0, retry_count |-> 0, context_data |-> 0 ]

\* error_log_[ i ]
LogSlot(i) == IF i \in DOMAIN error_log_ THEN error_log_[i] ELSE EmptyEvent

\* the i-th most recent entry of the log, as get_latest_error finds the first
NthLatest(i) ==
    LogSlot((log_write_index_ + MAX_ERROR_LOG_ENTRIES - i) % MAX_ERROR_LOG_ENTRIES)

\* C31: the log never holds more than MAX_ERROR_LOG_ENTRIES entries; after n events
\* it holds min(n, MAX_ERROR_LOG_ENTRIES) entries, which are the most recent events,
\* newest first from the write index, and the slots get_error_log reports hold them
RingHoldsMostRecent ==
    LET n == events_since_reset
        kept == IF n < MAX_ERROR_LOG_ENTRIES THEN n ELSE MAX_ERROR_LOG_ENTRIES
    IN  /\ log_count_ <= MAX_ERROR_LOG_ENTRIES
        /\ log_count_ = kept
        /\ \A i \in 1 .. kept : NthLatest(i).context_data = events_total - i + 1
        /\ { LogSlot(i).context_data : i \in 0 .. log_count_ - 1 }
              = (events_total - kept + 1) .. events_total

\* C31 witness: more than MAX_ERROR_LOG_ENTRIES events were logged after the log
\* had been cleared, so that old entries were overwritten
RingWrapped ==
    /\ events_since_reset > MAX_ERROR_LOG_ENTRIES + 1
    /\ events_total > events_since_reset
    /\ log_count_ = MAX_ERROR_LOG_ENTRIES

-----------------------------------------------------------------------------
(* calculate_retry_delay.  A uint32_t is kept as its two 16-bit halves           *)
(* <<high, low>>, so that no value exceeds what the checker can represent.       *)

RetryCountValues == 0 .. 255

\* x << 1 on a uint32_t
ShiftLeftOne(x) == << (2 * x[1] + x[2] \div 32768) % 65536, (2 * x[2]) % 65536 >>

RECURSIVE ShiftLeft(_, _)
\* x << n on a uint32_t, for n < 32
ShiftLeft(x, n) == IF n = 0 THEN x ELSE ShiftLeft(ShiftLeftOne(x), n - 1)

\* the values config_.retry_delay_base_ms << retry_count can have: the shifted value
\* for counts below 32; for larger counts the shift is undefined, and a build yields
\* 0 (a shifter that takes the whole count) or the value shifted by the count
\* modulo 32 (a shifter that takes its low five bits)
ShiftedBase(retry_count) ==
    IF retry_count < 32
    THEN { ShiftLeft(<<0, retry_delay_base_ms>>, retry_count) }
    ELSE { <<0, 0>>, ShiftLeft(<<0, retry_delay_base_ms>>, retry_count % 32) }

\* min( delay, config_.retry_delay_max_ms )
CappedDelay(x) == IF x[1] = 0 /\ x[2] < retry_delay_max_ms THEN x[2] ELSE retry_delay_max_ms

\* calculate_retry_delay( retry_count ); random( 0, jitter ) is below jitter
calculate_retry_delay(retry_count) ==
    /\ \E x \in ShiftedBase(retry_count) :
          LET delay == CappedDelay(x)
              jitter == delay \div 10
          IN  \E r \in 0 .. (IF jitter > 0 THEN jitter - 1 ELSE 0) :
                 retry_delay' = delay + r
    /\ delay_retry_count' = retry_count
    /\ UNCHANGED <<fallback_mode, handlerVars, ringVars, bendVars, probeVars, svcVars, firmwareVars>>

NextDelay == \E retry_count \in RetryCountValues : calculate_retry_delay(retry_count)

DelaySpec == InitFair /\ [][NextDelay]_vars

\* min( base_ms * 2^retry_count, max_ms ) with the exact product: from 2^20 on the
\* product of a base of at least 1 exceeds max_ms
ExactDelay(retry_count) ==
    IF retry_count >= 20 \/ retry_delay_base_ms * 2^retry_count > retry_delay_max_ms
    THEN retry_delay_max_ms
    ELSE retry_delay_base_ms * 2^retry_count

\* C32: the delay calculated for a retry count is min(base_ms * 2^retry_count,
\* max_ms) plus a jitter of at most 10% of that minimum
RetryDelayIsCappedBackoff ==
    [][ calculate_retry_delay(delay_retry_count') =>
          /\ retry_delay' >= ExactDelay(delay_retry_count')
          /\ 10 * (retry_delay' - ExactDelay(delay_retry_count'))
                <= ExactDelay(delay_retry_count') ]_vars

-----------------------------------------------------------------------------
(* The firmware while the transfers of DAC 0 stall or fail: nothing is asked of  *)
(* the service thread of DAC 0, whose bus transaction may never end, and when it *)
(* ends it may end with an error.  Every other thread is scheduled fairly.       *)

IndependenceFairness ==
    /\ WF_vars(VoiceMidiRead(NoTraffic) \/ VoiceUnlock)
    /\ SF_vars(ShowLock)
    /\ SF_vars(attention_please)
    /\ WF_vars(ShowMemcpy \/ ShowThrow \/ ShowThanks \/ ShowUnlock)
    /\ WF_vars(WorkerRuns(0))
    /\ SF_vars(WorkerLock(1)) /\ WF_vars(WorkerRuns(1))

IndependenceSpec == InitFair /\ [][Next]_vars /\ IndependenceFairness

\* C33: whatever becomes of the transfers of DAC 0, the dispatcher publishes to
\* DAC 1 again and again, and the worker of DAC 1 commits an update again and again
OtherDacProgresses ==
    /\ []<><<ShowThrow /\ show_dac = 1>>_vars
    /\ []<><<WorkerSetValues(1)>>_vars

\* C33 witness: a transfer of DAC 0 is in flight and not completed, the dispatcher
\* has just published to DAC 1, and the worker of DAC 1 is about to write an
\* update to its DAC
PublishedDuringStall ==
    /\ dma_operation_pending[0] /\ hal_state[0] = "DMA_IN_PROGRESS"
    /\ hal_pc[0] = "perform_i2c_transfer"
    /\ show_pc = "thanks" /\ show_dac = 1
    /\ worker_pc[1] = "set_values"

-----------------------------------------------------------------------------
(* Quiescence: the firmware of Spec, whose MIDI source delivers nothing *)

\* C34: with no MIDI traffic a transfer is requested by the refresh watchdog only:
\* every increment of a DAC's update_sequence is a step of party_pooper, one per
\* DAC and period
QuiescentPublicationsByWatchdog ==
    [][ \A d \in DACs :
          update_sequence'[d] # update_sequence[d] => PooperThrow ]_vars

-----------------------------------------------------------------------------
(* One pitch-bend message on its way from usbMIDI to the registers of a DAC,   *)
(* with all k_dac_count * k_channels_per_dac channels of input_buffer.         *)

\* set_channel_value that takes channel_index for the index without the step
\* from the 1-based MIDI domain
StoreBendOneBased(buf, channel, pitch) ==
    IF channel >= k_dac_count * k_channels_per_dac
    THEN buf
    ELSE (channel :> ScaledPitch(pitch)) @@ buf

\* set_channel_value( channel, pitch ) on input_buffer with all of its channels
StoreBend(buf, channel, pitch) ==
    LET channel_index == (channel - 1) % 256
    IN  IF channel_index >= k_dac_count * k_channels_per_dac
        THEN buf
        ELSE (channel_index :> ScaledPitch(pitch)) @@ buf

\* input_buffer[ c ]
InputAt(buf, c) == IF c \in DOMAIN buf THEN buf[c] ELSE 0

\* the slice of a DAC that go_muppets copies to it
DacSlice(buf, d) ==
    [k \in 0 .. (k_channels_per_dac - 1) |-> InputAt(buf, d * k_channels_per_dac + k)]

\* prepare_dac_write_buffer: [register_addr][data_high][data_low] for each channel
prepare_dac_write_buffer(values) ==
    [ i \in 1 .. (3 * k_channels) |->
        LET channel == (i - 1) \div 3
            rescaled_value == dac_value_rescale(values[channel])
        IN  CASE (i - 1) % 3 = 0 -> 16 + channel
              [] (i - 1) % 3 = 1 -> (rescaled_value \div 256) % 256
              [] OTHER -> rescaled_value % 256 ]

\* usbMIDI.read() finds a pitch-bend message
BendRead ==
    /\ bend_pc = "read"
    /\ \E channel \in BendChannels, pitch \in MinPitch .. MaxPitch :
          bend_channel' = channel /\ bend_pitch' = pitch
    /\ bend_pc' = "callback"
    /\ UNCHANGED <<all_input, dma_write_buffer_, delayVars, fallback_mode, handlerVars,
                   ringVars, probeVars, svcVars, firmwareVars>>

\* the callback for the pitch change
BendStore ==
    /\ bend_pc = "callback"
    /\ all_input' = StoreBend(all_input, bend_channel, bend_pitch)
    /\ bend_pc' = "stored"
    /\ UNCHANGED <<bend_channel, bend_pitch, dma_write_buffer_, delayVars, fallback_mode,
                   handlerVars, ringVars, probeVars, svcVars, firmwareVars>>

\* the drivers pack the slices they were handed
BendPrepare ==
    /\ bend_pc = "stored"
    /\ dma_write_buffer_' = [d \in DACs |-> prepare_dac_write_buffer(DacSlice(all_input, d))]
    /\ bend_pc' = "prepared"
    /\ UNCHANGED <<bend_channel, bend_pitch, all_input, delayVars, fallback_mode,
                   handlerVars, ringVars, probeVars, svcVars, firmwareVars>>

NextBend == BendRead \/ BendStore \/ BendPrepare

BendSpec == InitFair /\ [][NextBend]_vars

\* C35: for every pitch-bend value p in [-0x2000, 0x1FFF] the value stored in
\* input[channel-1] is clamp(p + 0x2000, 0, 0x3FFF) * 4 and fits in 16 bits; p = 0
\* stores 0x8000 and p = +0x1FFF stores 0xFFFC
StoredIsClampedTimesFour ==
    [][ BendStore /\ bend_channel \in 1 .. 16 /\ bend_pitch \in -8192 .. 8191 =>
          /\ LET x == bend_pitch + 8192
                 clamp == IF x < 0 THEN 0 ELSE IF x > 16383 THEN 16383 ELSE x
             IN  InputAt(all_input', bend_channel - 1) = clamp * 4
          /\ InputAt(all_input', bend_channel - 1) \in 0 .. 65535
          /\ bend_pitch = 0 => InputAt(all_input', bend_channel - 1) = 32768
          /\ bend_pitch = 8191 => InputAt(all_input', bend_channel - 1) = 65532 ]_vars

\* C35 witness: the maximum pitch has been stored for channel 16
MaximumStored ==
    /\ bend_pc = "stored" /\ bend_channel = 16 /\ bend_pitch = 8191
    /\ InputAt(all_input, 15) = 65532

\* the 12-bit value a DAC's buffer holds for a register
RegisterValue(d, register) ==
    LET i == CHOOSE j \in 1 .. (3 * k_channels) :
                 (j - 1) % 3 = 0 /\ dma_write_buffer_[d][j] = register
    IN  dma_write_buffer_[d][i + 1] * 256 + dma_write_buffer_[d][i + 2]

\* C36: pitch-bend 0 on channel 1 writes 0x800 to register 0x10 of DAC 0, and
\* pitch-bend +0x1FFF on channel 8 writes 0xFFF to register 0x17 of DAC 0
BendReachesRegister ==
    bend_pc = "prepared" =>
        /\ bend_channel = 1 /\ bend_pitch = 0 => RegisterValue(0, 16) = 2048
        /\ bend_channel = 8 /\ bend_pitch = 8191 => RegisterValue(0, 23) = 4095

\* C37 as stated: a pitch-bend message on a MIDI channel of 16 or more changes no
\* element of input_buffer and nothing else
HighChannelDropped ==
    [][ BendStore /\ bend_channel >= k_dac_count * k_channels_per_dac =>
          UNCHANGED <<all_input, dma_write_buffer_, delayVars, fallback_mode, handlerVars,
                      ringVars, probeVars, svcVars, firmwareVars>> ]_vars

\* C37: a pitch-bend message whose 0-based channel index, the uint8_t channel - 1,
\* is 16 or more changes no element of input_buffer and nothing else
IndexBeyondBufferDropped ==
    [][ BendStore /\ (bend_channel - 1) % 256 >= k_dac_count * k_channels_per_dac =>
          UNCHANGED <<all_input, dma_write_buffer_, delayVars, fallback_mode, handlerVars,
                      ringVars, probeVars, svcVars, firmwareVars>> ]_vars

\* C37 witness: a message on channel 17 went through set_channel_value
HighChannelHandled ==
    /\ bend_pc = "stored" /\ bend_channel = 17 /\ bend_pitch = 8191
    /\ \A c \in 0 .. 15 : InputAt(all_input, c) = 0

-----------------------------------------------------------------------------
(* rob_tillaart_ad_5993r::initialize and adafruit_mcp_4728::initialize: the    *)
(* probe loop  while ( retry++ < 100 && !begin() ) threads.delay( 10 );        *)
(* and the configuration under  if ( retry < 100 ).  initialize returns void.  *)

\* uint16_t retry = 0
ProbeEnter ==
    /\ probe_pc = "idle"
    /\ retry' = 0 /\ probes' = 0
    /\ probe_pc' = "while"
    /\ UNCHANGED <<begin_result, dac_mode_set, bendVars, delayVars, fallback_mode,
                   handlerVars, ringVars, svcVars, firmwareVars>>

\* the condition of the while: retry++ < 100, and only then begin()
ProbeTest ==
    /\ probe_pc = "while"
    /\ retry' = (retry + 1) % 65536
    /\ IF retry < max_probes
       THEN \E ok \in BOOLEAN :
               /\ begin_result' = ok
               /\ probes' = probes + 1
               /\ probe_pc' = IF ok THEN "if" ELSE "delay"
       ELSE /\ probe_pc' = "if"
            /\ UNCHANGED <<begin_result, probes>>
    /\ UNCHANGED <<dac_mode_set, bendVars, delayVars, fallback_mode, handlerVars,
                   ringVars, svcVars, firmwareVars>>

\* threads.delay( 10 )
ProbeDelay ==
    /\ probe_pc = "delay"
    /\ probe_pc' = "while"
    /\ UNCHANGED <<retry, probes, begin_result, dac_mode_set, bendVars, delayVars,
                   fallback_mode, handlerVars, ringVars, svcVars, firmwareVars>>

\* if ( retry < 100 ) the channels are configured; initialize returns
ProbeConfigure ==
    /\ probe_pc = "if"
    /\ dac_mode_set' = (retry < max_probes)
    /\ probe_pc' = "done"
    /\ UNCHANGED <<retry, probes, begin_result, bendVars, delayVars, fallback_mode,
                   handlerVars, ringVars, svcVars, firmwareVars>>

NextProbe == ProbeEnter \/ ProbeTest \/ ProbeDelay \/ ProbeConfigure

ProbeSpec == InitFair /\ [][NextProbe]_vars

\* C38: initialize makes at most 100 probe attempts and terminates, and the device
\* is configured if and only if one of the attempts, the 100th included, succeeded
ConfiguredIffProbeSucceeded ==
    /\ probes <= 100
    /\ probe_pc = "done" => (dac_mode_set <=> begin_result)

-----------------------------------------------------------------------------
(* The recovery chosen by handle_error against what execute_recovery does, under *)
(* PolicySpec                                                                    *)

\* C39: the recovery chosen for an event is carried out when execute_recovery runs
\* on it: a chosen retry is granted by retry_operation, a chosen FALLBACK_TO_SYNC
\* sets fallback_mode of the event's DAC, a chosen RESET_PERIPHERAL performs the reset
ChosenRecoveryCarriedOut ==
    [][ execute_recovery =>
          LET ev == get_latest_error
          IN  /\ ev.recovery \in { "RETRY_IMMEDIATE", "RETRY_WITH_DELAY" } =>
                    retry_operation((ev.retry_count + 1) % 256)
              /\ ev.recovery = "FALLBACK_TO_SYNC" => fallback_mode'[ev.dac_index]
              /\ ev.recovery = "RESET_PERIPHERAL" =>
                    /\ should_reset_peripheral(ev.dac_index)
                    /\ consecutive_errors'[ev.dac_index] = 0 ]_vars

-----------------------------------------------------------------------------
(* dma_i2c_hal::init and deinit of engine 0, and the threads init adds.  deinit *)
(* clears initialized_ and leaves it to the thread to end when it next tests    *)
(* the flag; init sets the flag again and adds a thread.                        *)

otherVars == <<renumber, probeVars, bendVars, delayVars, ringVars, errVars, burstVars,
               bufVars, inspiration, voiceVars, showVars, pooper_dac, async_me,
               muppet_lock, seqVars, workerVars, mgrVars, drvVars, halThreadVars>>

\* init( config ) with a wire instance
EngineInit ==
    /\ ~initialized[0]
    /\ Len(thread_pc) < MaxThreads
    /\ thread_pc' = Append(thread_pc, "while")
    /\ initialized' = [initialized EXCEPT ![0] = TRUE]
    /\ hal_state' = [hal_state EXCEPT ![0] = "IDLE"]
    /\ hal_last_error' = [hal_last_error EXCEPT ![0] = "SUCCESS"]
    /\ UNCHANGED <<hal_callback, async_operation_pending, async_operation_complete,
                   pending_transfer, performs, clientVars, dacVars, otherVars>>

\* deinit(): abort_transfer() if a transfer is in progress, then initialized_ = false
\* and reset_state()
EngineDeinit ==
    /\ initialized[0]
    /\ LET aborts == hal_state[0] = "DMA_IN_PROGRESS"
       IN  /\ async_operation_pending' =
                 IF aborts THEN [async_operation_pending EXCEPT ![0] = FALSE]
                           ELSE async_operation_pending
           /\ async_operation_complete' =
                 IF aborts THEN [async_operation_complete EXCEPT ![0] = TRUE]
                           ELSE async_operation_complete
    /\ initialized' = [initialized EXCEPT ![0] = FALSE]
    /\ hal_state' = [hal_state EXCEPT ![0] = "IDLE"]
    /\ hal_last_error' = [hal_last_error EXCEPT ![0] = "SUCCESS"]
    /\ hal_callback' = [hal_callback EXCEPT ![0] = "none"]
    /\ UNCHANGED <<pending_transfer, svcVars, clientVars, dacVars, otherVars>>

\* while ( hal_instance->initialized_ )
SvcWhile(t) ==
    /\ thread_pc[t] = "while"
    /\ thread_pc' = [thread_pc EXCEPT ![t] = IF initialized[0] THEN "if" ELSE "exited"]
    /\ UNCHANGED <<performs, halVars, clientVars, dacVars, otherVars>>

\* if ( async_operation_pending && !async_operation_complete )
SvcTest(t) ==
    /\ thread_pc[t] = "if"
    /\ IF async_operation_pending[0] /\ ~async_operation_complete[0]
       THEN /\ thread_pc' = [thread_pc EXCEPT ![t] = "perform_i2c_transfer"]
            /\ performs' = performs + 1
       ELSE /\ thread_pc' = [thread_pc EXCEPT ![t] = "delay"]
            /\ UNCHANGED performs
    /\ UNCHANGED <<halVars, clientVars, dacVars, otherVars>>

\* the bus transaction ends with result w: state, flags, then the callback if one is set
SvcFinish(t) ==
    /\ thread_pc[t] = "perform_i2c_transfer"
    /\ \E w \in WireResults :
        LET result == WireError(w)
            state == IF result = "SUCCESS" THEN "COMPLETED" ELSE "ERROR_DMA_FAILURE"
        IN  /\ hal_state' = [hal_state EXCEPT ![0] = state]
            /\ hal_last_error' = [hal_last_error EXCEPT ![0] = result]
            /\ dac_values' = IF w = 0 THEN [dac_values EXCEPT ![0] = pending_transfer[0]]
                                      ELSE dac_values
    /\ async_operation_complete' = [async_operation_complete EXCEPT ![0] = TRUE]
    /\ async_operation_pending' = [async_operation_pending EXCEPT ![0] = FALSE]
    /\ callbacks_made' = IF hal_callback[0] = "client_callback"
                         THEN [callbacks_made EXCEPT ![0] = @ + 1]
                         ELSE callbacks_made
    /\ thread_pc' = [thread_pc EXCEPT ![t] = "delay"]
    /\ UNCHANGED <<performs, initialized, hal_callback, pending_transfer,
                   ldac, client_pc, client_result, transfers_made, otherVars>>

\* threads.yield(); threads.delay( 1 )
SvcDelay(t) ==
    /\ thread_pc[t] = "delay"
    /\ thread_pc' = [thread_pc EXCEPT ![t] = "while"]
    /\ UNCHANGED <<performs, halVars, clientVars, dacVars, otherVars>>

Svc(t) == SvcWhile(t) \/ SvcTest(t) \/ SvcFinish(t) \/ SvcDelay(t)

\* engine 0 constructed and not initialized
InitReinit ==
    /\ renumber = FALSE
    /\ InitMembers
    /\ input_buffer = [c \in Channels |-> 0]
    /\ async_me = [d \in DACs |-> FALSE]
    /\ initialized = [d \in DACs |-> FALSE]

NextReinit ==
    \/ EngineInit
    \/ EngineDeinit
    \/ ClientTransferAsync(0)
    \/ \E t \in DOMAIN thread_pc : Svc(t)

ReinitSpec == InitReinit /\ [][NextReinit]_vars

\* the threads that run the loop of async_worker_thread
Serving == { t \in DOMAIN thread_pc : thread_pc[t] # "exited" }

\* C40: while the engine is initialized at most one thread runs its service loop,
\* also after deinit() followed by init(), and no accepted transfer is executed
\* twice: perform_i2c_transfer has been called at most once per accepted transfer
OneServiceThread ==
    /\ initialized[0] => Cardinality(Serving) <= 1
    /\ performs <= transfers_made[0]

====
